---------------------------- MODULE Spec2Model ----------------------------
(***************************************************************************)
(* The notes-maker server: the /generate-notes handler with its language   *)
(* and subject detection pipeline (detectLanguage, detectSubject,          *)
(* postDetectSubject), the lazily established database connection          *)
(* (connectDB, ensureDBConnection), the note store (saveNotes) and the     *)
(* /api/db-status and /api/notes routes that share the connection.         *)
(* Strings are TLA+ strings; the JavaScript string methods the code uses   *)
(* (toLowerCase, includes, trim, split(..)[0], replace) are defined below  *)
(* character by character.                                                 *)
(***************************************************************************)
EXTENDS Integers, Sequences, FiniteSets, TLC

\* ------------------------------------------------------------------------
\* JavaScript string methods
\* ------------------------------------------------------------------------

\* String.prototype.toLowerCase on ASCII letters: the upper-case letters and their images.
UpperToLower ==
  [A |-> "a", B |-> "b", C |-> "c", D |-> "d", E |-> "e", F |-> "f", G |-> "g",
   H |-> "h", I |-> "i", J |-> "j", K |-> "k", L |-> "l", M |-> "m", N |-> "n",
   O |-> "o", P |-> "p", Q |-> "q", R |-> "r", S |-> "s", T |-> "t", U |-> "u",
   V |-> "v", W |-> "w", X |-> "x", Y |-> "y", Z |-> "z"]

toLowerCaseChar(c) ==
  IF c \in DOMAIN UpperToLower THEN UpperToLower[c] ELSE c

RECURSIVE toLowerCase(_)
toLowerCase(s) ==
  IF s = "" THEN ""
  ELSE toLowerCaseChar(SubSeq(s, 1, 1)) \o toLowerCase(SubSeq(s, 2, Len(s)))

\* String.prototype.includes: k occurs in t as a contiguous substring.
includes(t, k) ==
  \E i \in 0..(Len(t) - Len(k)) : SubSeq(t, i + 1, i + Len(k)) = k

\* The white space String.prototype.trim removes (the ASCII part of it).
WhiteSpace == {" ", "\t", "\n", "\r"}

RECURSIVE trimStart(_)
trimStart(s) ==
  IF s = "" THEN ""
  ELSE IF SubSeq(s, 1, 1) \in WhiteSpace THEN trimStart(SubSeq(s, 2, Len(s)))
  ELSE s

RECURSIVE trimEnd(_)
trimEnd(s) ==
  IF s = "" THEN ""
  ELSE IF SubSeq(s, Len(s), Len(s)) \in WhiteSpace THEN trimEnd(SubSeq(s, 1, Len(s) - 1))
  ELSE s

trim(s) == trimEnd(trimStart(s))

\* s.split(sep)[0] for a one-character separator: s up to the first sep.
RECURSIVE splitFirst(_, _)
splitFirst(s, sep) ==
  IF s = "" THEN ""
  ELSE IF SubSeq(s, 1, 1) = sep THEN ""
  ELSE SubSeq(s, 1, 1) \o splitFirst(SubSeq(s, 2, Len(s)), sep)

\* s.replace(/["“”‘’]/g, ''): the quote characters are removed (the straight double
\* quote is the one an ASCII string can hold).
RECURSIVE removeQuotes(_)
removeQuotes(s) ==
  IF s = "" THEN ""
  ELSE (IF SubSeq(s, 1, 1) = "\"" THEN "" ELSE SubSeq(s, 1, 1))
       \o removeQuotes(SubSeq(s, 2, Len(s)))

\* ------------------------------------------------------------------------
\* detectSubject: the tables
\* ------------------------------------------------------------------------

allowedSubjects ==
  <<"Mathematics", "Physics", "Chemistry", "Biology", "Programming",
    "Computer Science", "History", "Geography", "Literature", "Language",
    "Art", "Music", "Sports", "Entertainment", "General">>

\* s.toLowerCase() for each allowed subject s, in the order of allowedSubjects.
allowedLower == [i \in DOMAIN allowedSubjects |-> toLowerCase(allowedSubjects[i])]

\* Object.entries(synonyms) of detectSubject, in declaration order.
synonyms ==
  <<
    <<"computer science", "Computer Science">>,
    <<"cs", "Computer Science">>,
    <<"coding", "Programming">>,
    <<"programming", "Programming">>,
    <<"program", "Programming">>,
    <<"math", "Mathematics">>,
    <<"mathematics", "Mathematics">>,
    <<"physics", "Physics">>,
    <<"chemistry", "Chemistry">>,
    <<"biology", "Biology">>,
    <<"history", "History">>,
    <<"geography", "Geography">>,
    <<"literature", "Literature">>,
    <<"language", "Language">>,
    <<"linguistics", "Language">>,
    <<"art", "Art">>,
    <<"music", "Music">>,
    <<"sports", "Sports">>,
    <<"entertainment", "Entertainment">>,
    <<"general", "General">>
  >>

\* keywordMap["Mathematics"] (part_001:239-289); every term is listed three times, as in the source.
kwMathematics ==
  <<
    "integral", "integral", "integral",
    "derivative", "derivative", "derivative",
    "algebra", "algebra", "algebra",
    "calculus", "calculus", "calculus",
    "theorem", "theorem", "theorem",
    "matrix", "matrix", "matrix",
    "probability", "probability", "probability",
    "geometry", "geometry", "geometry",
    "trigonometry", "trigonometry", "trigonometry",
    "statistics", "statistics", "statistics",
    "differential equations", "differential equations", "differential equations",
    "vector", "vector", "vector",
    "tensor", "tensor", "tensor",
    "limit", "limit", "limit",
    "set theory", "set theory", "set theory",
    "number theory", "number theory", "number theory",
    "topology", "topology", "topology",
    "combinatorics", "combinatorics", "combinatorics",
    "prime", "prime", "prime",
    "logarithm", "logarithm", "logarithm",
    "exponential", "exponential", "exponential",
    "polynomial", "polynomial", "polynomial",
    "inequality", "inequality", "inequality",
    "function", "function", "function",
    "graph theory", "graph theory", "graph theory",
    "optimization", "optimization", "optimization",
    "linear algebra", "linear algebra", "linear algebra",
    "stochastic", "stochastic", "stochastic",
    "random variable", "random variable", "random variable",
    "bayesian", "bayesian", "bayesian",
    "euclidean", "euclidean", "euclidean",
    "non-euclidean", "non-euclidean", "non-euclidean",
    "metric", "metric", "metric",
    "proof", "proof", "proof",
    "axiom", "axiom", "axiom",
    "lemma", "lemma", "lemma",
    "corollary", "corollary", "corollary",
    "sequence", "sequence", "sequence",
    "series", "series", "series",
    "p-adic", "p-adic", "p-adic",
    "symmetry", "symmetry", "symmetry",
    "group theory", "group theory", "group theory",
    "ring", "ring", "ring",
    "field", "field", "field",
    "manifold", "manifold", "manifold",
    "integrable", "integrable", "integrable",
    "partial derivative", "partial derivative", "partial derivative",
    "gradient", "gradient", "gradient",
    "divergence", "divergence", "divergence",
    "curl", "curl", "curl"
  >>

\* keywordMap["Physics"] (part_001:292-340); every term is listed three times, as in the source.
kwPhysics ==
  <<
    "velocity", "velocity", "velocity",
    "force", "force", "force",
    "quantum", "quantum", "quantum",
    "relativity", "relativity", "relativity",
    "particle", "particle", "particle",
    "energy", "energy", "energy",
    "momentum", "momentum", "momentum",
    "thermodynamics", "thermodynamics", "thermodynamics",
    "optics", "optics", "optics",
    "mass", "mass", "mass",
    "acceleration", "acceleration", "acceleration",
    "friction", "friction", "friction",
    "gravity", "gravity", "gravity",
    "electromagnetism", "electromagnetism", "electromagnetism",
    "wave", "wave", "wave",
    "frequency", "frequency", "frequency",
    "amplitude", "amplitude", "amplitude",
    "spin", "spin", "spin",
    "string theory", "string theory", "string theory",
    "boson", "boson", "boson",
    "fermion", "fermion", "fermion",
    "neutrino", "neutrino", "neutrino",
    "photon", "photon", "photon",
    "entropy", "entropy", "entropy",
    "enthalpy", "enthalpy", "enthalpy",
    "pressure", "pressure", "pressure",
    "fluid dynamics", "fluid dynamics", "fluid dynamics",
    "nuclear", "nuclear", "nuclear",
    "atomic", "atomic", "atomic",
    "collision", "collision", "collision",
    "radiation", "radiation", "radiation",
    "magnetism", "magnetism", "magnetism",
    "capacitance", "capacitance", "capacitance",
    "resistance", "resistance", "resistance",
    "superconductivity", "superconductivity", "superconductivity",
    "black hole", "black hole", "black hole",
    "cosmology", "cosmology", "cosmology",
    "astrophysics", "astrophysics", "astrophysics",
    "inertia", "inertia", "inertia",
    "scalar", "scalar", "scalar",
    "vector", "vector", "vector",
    "field", "field", "field",
    "higgs", "higgs", "higgs",
    "dark matter", "dark matter", "dark matter",
    "dark energy", "dark energy", "dark energy",
    "interference", "interference", "interference",
    "diffraction", "diffraction", "diffraction",
    "relativistic", "relativistic", "relativistic"
  >>

\* keywordMap["Chemistry"] (part_001:343-386); every term is listed three times, as in the source.
kwChemistry ==
  <<
    "molecule", "molecule", "molecule",
    "reaction", "reaction", "reaction",
    "chemical", "chemical", "chemical",
    "atom", "atom", "atom",
    "bond", "bond", "bond",
    "ph", "ph", "ph",
    "acid", "acid", "acid",
    "oxidation", "oxidation", "oxidation",
    "synthesis", "synthesis", "synthesis",
    "catalyst", "catalyst", "catalyst",
    "organic", "organic", "organic",
    "inorganic", "inorganic", "inorganic",
    "covalent", "covalent", "covalent",
    "ionic", "ionic", "ionic",
    "solution", "solution", "solution",
    "solvent", "solvent", "solvent",
    "solute", "solute", "solute",
    "concentration", "concentration", "concentration",
    "stoichiometry", "stoichiometry", "stoichiometry",
    "thermochemistry", "thermochemistry", "thermochemistry",
    "enthalpy", "enthalpy", "enthalpy",
    "electrons", "electrons", "electrons",
    "orbitals", "orbitals", "orbitals",
    "periodic table", "periodic table", "periodic table",
    "isotope", "isotope", "isotope",
    "polymer", "polymer", "polymer",
    "crystal", "crystal", "crystal",
    "precipitate", "precipitate", "precipitate",
    "titration", "titration", "titration",
    "spectroscopy", "spectroscopy", "spectroscopy",
    "chromatography", "chromatography", "chromatography",
    "equilibrium", "equilibrium", "equilibrium",
    "buffer", "buffer", "buffer",
    "alkaline", "alkaline", "alkaline",
    "halogen", "halogen", "halogen",
    "transition metal", "transition metal", "transition metal",
    "electrochemistry", "electrochemistry", "electrochemistry",
    "redox", "redox", "redox",
    "molarity", "molarity", "molarity",
    "kinetics", "kinetics", "kinetics",
    "hydrocarbon", "hydrocarbon", "hydrocarbon",
    "ester", "ester", "ester",
    "amine", "amine", "amine"
  >>

\* keywordMap["Biology"] (part_001:389-433); every term is listed three times, as in the source.
kwBiology ==
  <<
    "cell", "cell", "cell",
    "organism", "organism", "organism",
    "evolution", "evolution", "evolution",
    "dna", "dna", "dna",
    "protein", "protein", "protein",
    "genome", "genome", "genome",
    "photosynthesis", "photosynthesis", "photosynthesis",
    "mitosis", "mitosis", "mitosis",
    "meiosis", "meiosis", "meiosis",
    "enzyme", "enzyme", "enzyme",
    "chromosome", "chromosome", "chromosome",
    "ribosome", "ribosome", "ribosome",
    "mutation", "mutation", "mutation",
    "gene", "gene", "gene",
    "genetics", "genetics", "genetics",
    "epigenetics", "epigenetics", "epigenetics",
    "ecosystem", "ecosystem", "ecosystem",
    "bacteria", "bacteria", "bacteria",
    "virus", "virus", "virus",
    "fungi", "fungi", "fungi",
    "microbe", "microbe", "microbe",
    "adaptation", "adaptation", "adaptation",
    "natural selection", "natural selection", "natural selection",
    "anatomy", "anatomy", "anatomy",
    "physiology", "physiology", "physiology",
    "immune system", "immune system", "immune system",
    "respiration", "respiration", "respiration",
    "metabolism", "metabolism", "metabolism",
    "hormone", "hormone", "hormone",
    "organ", "organ", "organ",
    "species", "species", "species",
    "taxonomy", "taxonomy", "taxonomy",
    "reproduction", "reproduction", "reproduction",
    "biosphere", "biosphere", "biosphere",
    "ecology", "ecology", "ecology",
    "biome", "biome", "biome",
    "cloning", "cloning", "cloning",
    "biotechnology", "biotechnology", "biotechnology",
    "neuron", "neuron", "neuron",
    "synapse", "synapse", "synapse",
    "membrane", "membrane", "membrane",
    "cytoplasm", "cytoplasm", "cytoplasm",
    "mitochondria", "mitochondria", "mitochondria",
    "chloroplast", "chloroplast", "chloroplast"
  >>

\* keywordMap["Programming"] (part_001:436-567); every term is listed three times, as in the source.
kwProgramming ==
  <<
    "function", "function", "function",
    "variable", "variable", "variable",
    "loop", "loop", "loop",
    "algorithm", "algorithm", "algorithm",
    "code", "code", "code",
    "compile", "compile", "compile",
    "runtime", "runtime", "runtime",
    "bug", "bug", "bug",
    "debug", "debug", "debug",
    "class", "class", "class",
    "object", "object", "object",
    "inheritance", "inheritance", "inheritance",
    "polymorphism", "polymorphism", "polymorphism",
    "interface", "interface", "interface",
    "recursion", "recursion", "recursion",
    "pointer", "pointer", "pointer",
    "array", "array", "array",
    "list", "list", "list",
    "dictionary", "dictionary", "dictionary",
    "hashmap", "hashmap", "hashmap",
    "framework", "framework", "framework",
    "library", "library", "library",
    "module", "module", "module",
    "package", "package", "package",
    "thread", "thread", "thread",
    "concurrency", "concurrency", "concurrency",
    "parallel", "parallel", "parallel",
    "asynchronous", "asynchronous", "asynchronous",
    "promise", "promise", "promise",
    "exception", "exception", "exception",
    "error", "error", "error",
    "syntax", "syntax", "syntax",
    "interpreter", "interpreter", "interpreter",
    "compiler", "compiler", "compiler",
    "optimization", "optimization", "optimization",
    "API", "API", "API",
    "REST", "REST", "REST",
    "JSON", "JSON", "JSON",
    "XML", "XML", "XML",
    "version control", "version control", "version control",
    "git", "git", "git",
    "regex", "regex", "regex",
    "IDE", "IDE", "IDE",
    "container", "container", "container",
    "virtual machine", "virtual machine", "virtual machine",
    "C", "C", "C",
    "C++", "C++", "C++",
    "C#", "C#", "C#",
    "Java", "Java", "Java",
    "JavaScript", "JavaScript", "JavaScript",
    "TypeScript", "TypeScript", "TypeScript",
    "Python", "Python", "Python",
    "Ruby", "Ruby", "Ruby",
    "Go", "Go", "Go",
    "Golang", "Golang", "Golang",
    "Rust", "Rust", "Rust",
    "Swift", "Swift", "Swift",
    "Kotlin", "Kotlin", "Kotlin",
    "PHP", "PHP", "PHP",
    "Perl", "Perl", "Perl",
    "Haskell", "Haskell", "Haskell",
    "Scala", "Scala", "Scala",
    "R", "R", "R",
    "MATLAB", "MATLAB", "MATLAB",
    "Lua", "Lua", "Lua",
    "Objective-C", "Objective-C", "Objective-C",
    "Dart", "Dart", "Dart",
    "Visual Basic", "Visual Basic", "Visual Basic",
    "Fortran", "Fortran", "Fortran",
    "Assembly", "Assembly", "Assembly",
    "ASM", "ASM", "ASM",
    "Erlang", "Erlang", "Erlang",
    "Elixir", "Elixir", "Elixir",
    "COBOL", "COBOL", "COBOL",
    "Julia", "Julia", "Julia",
    "Shell", "Shell", "Shell",
    "Bash", "Bash", "Bash",
    "PowerShell", "PowerShell", "PowerShell",
    "SQL", "SQL", "SQL",
    "PL/SQL", "PL/SQL", "PL/SQL",
    "T-SQL", "T-SQL", "T-SQL",
    "Ada", "Ada", "Ada",
    "Prolog", "Prolog", "Prolog",
    "Lisp", "Lisp", "Lisp",
    "Scheme", "Scheme", "Scheme",
    "OCaml", "OCaml", "OCaml",
    "F#", "F#", "F#",
    "Groovy", "Groovy", "Groovy",
    "Smalltalk", "Smalltalk", "Smalltalk",
    "Crystal", "Crystal", "Crystal",
    "Nim", "Nim", "Nim",
    "Vala", "Vala", "Vala",
    "Solidity", "Solidity", "Solidity",
    "VHDL", "VHDL", "VHDL",
    "Verilog", "Verilog", "Verilog",
    "Apex", "Apex", "Apex",
    "ABAP", "ABAP", "ABAP",
    "ColdFusion", "ColdFusion", "ColdFusion",
    "Hack", "Hack", "Hack",
    "Tcl", "Tcl", "Tcl",
    "Racket", "Racket", "Racket",
    "D", "D", "D",
    "Zig", "Zig", "Zig",
    "Haxe", "Haxe", "Haxe",
    "Modula-2", "Modula-2", "Modula-2",
    "ML", "ML", "ML",
    "HLSL", "HLSL", "HLSL",
    "GLSL", "GLSL", "GLSL",
    "Smarty", "Smarty", "Smarty",
    "Handlebars", "Handlebars", "Handlebars",
    "Mustache", "Mustache", "Mustache",
    "XPath", "XPath", "XPath",
    "XQuery", "XQuery", "XQuery",
    "Puppet", "Puppet", "Puppet",
    "Chef", "Chef", "Chef",
    "Ansible", "Ansible", "Ansible",
    "Makefile", "Makefile", "Makefile",
    "Gradle", "Gradle", "Gradle",
    "Maven", "Maven", "Maven",
    "Emacs Lisp", "Emacs Lisp", "Emacs Lisp",
    "Raku", "Raku", "Raku",
    "COBOLScript", "COBOLScript", "COBOLScript",
    "OpenCL", "OpenCL", "OpenCL",
    "CUDA", "CUDA", "CUDA",
    "WebAssembly", "WebAssembly", "WebAssembly",
    "WASM", "WASM", "WASM",
    "Template", "Template", "Template",
    "Domain Specific Language", "Domain Specific Language", "Domain Specific Language"
  >>

\* keywordMap["Computer Science"] (part_001:570-607); every term is listed three times, as in the source.
kwComputerScience ==
  <<
    "computer", "computer", "computer",
    "algorithm", "algorithm", "algorithm",
    "data structure", "data structure", "data structure",
    "database", "database", "database",
    "machine learning", "machine learning", "machine learning",
    "computing", "computing", "computing",
    "cpu", "cpu", "cpu",
    "gpu", "gpu", "gpu",
    "compiler theory", "compiler theory", "compiler theory",
    "operating system", "operating system", "operating system",
    "network", "network", "network",
    "protocol", "protocol", "protocol",
    "distributed system", "distributed system", "distributed system",
    "cloud", "cloud", "cloud",
    "virtualization", "virtualization", "virtualization",
    "encryption", "encryption", "encryption",
    "cryptography", "cryptography", "cryptography",
    "complexity", "complexity", "complexity",
    "big o", "big o", "big o",
    "neural network", "neural network", "neural network",
    "ai", "ai", "ai",
    "deep learning", "deep learning", "deep learning",
    "nlp", "nlp", "nlp",
    "data mining", "data mining", "data mining",
    "information theory", "information theory", "information theory",
    "storage", "storage", "storage",
    "cache", "cache", "cache",
    "parallelism", "parallelism", "parallelism",
    "graph", "graph", "graph",
    "tree", "tree", "tree",
    "binary", "binary", "binary",
    "hashing", "hashing", "hashing",
    "blockchain", "blockchain", "blockchain",
    "cybersecurity", "cybersecurity", "cybersecurity",
    "quantum computing", "quantum computing", "quantum computing",
    "software engineering", "software engineering", "software engineering",
    "microarchitecture", "microarchitecture", "microarchitecture"
  >>

\* keywordMap["History"] (part_001:610-643); every term is listed three times, as in the source.
kwHistory ==
  <<
    "war", "war", "war",
    "empire", "empire", "empire",
    "revolution", "revolution", "revolution",
    "histor", "histor", "histor",
    "ancient", "ancient", "ancient",
    "medieval", "medieval", "medieval",
    "colonial", "colonial", "colonial",
    "civilization", "civilization", "civilization",
    "dynasty", "dynasty", "dynasty",
    "treaty", "treaty", "treaty",
    "monarchy", "monarchy", "monarchy",
    "republic", "republic", "republic",
    "conquest", "conquest", "conquest",
    "military", "military", "military",
    "battle", "battle", "battle",
    "renaissance", "renaissance", "renaissance",
    "industrial", "industrial", "industrial",
    "cold war", "cold war", "cold war",
    "world war", "world war", "world war",
    "enlightenment", "enlightenment", "enlightenment",
    "pharaoh", "pharaoh", "pharaoh",
    "archaeology", "archaeology", "archaeology",
    "imperialism", "imperialism", "imperialism",
    "feudalism", "feudalism", "feudalism",
    "constitution", "constitution", "constitution",
    "reform", "reform", "reform",
    "rebellion", "rebellion", "rebellion",
    "independence", "independence", "independence",
    "exploration", "exploration", "exploration",
    "migration", "migration", "migration",
    "cultural heritage", "cultural heritage", "cultural heritage",
    "chronicle", "chronicle", "chronicle",
    "historic event", "historic event", "historic event"
  >>

\* keywordMap["Geography"] (part_001:646-678); every term is listed three times, as in the source.
kwGeography ==
  <<
    "continent", "continent", "continent",
    "country", "country", "country",
    "climate", "climate", "climate",
    "mountain", "mountain", "mountain",
    "river", "river", "river",
    "latitude", "latitude", "latitude",
    "longitude", "longitude", "longitude",
    "topography", "topography", "topography",
    "desert", "desert", "desert",
    "ocean", "ocean", "ocean",
    "island", "island", "island",
    "plate tectonics", "plate tectonics", "plate tectonics",
    "weather", "weather", "weather",
    "region", "region", "region",
    "urban", "urban", "urban",
    "rural", "rural", "rural",
    "population", "population", "population",
    "ecosystem", "ecosystem", "ecosystem",
    "rainforest", "rainforest", "rainforest",
    "volcano", "volcano", "volcano",
    "earthquake", "earthquake", "earthquake",
    "map", "map", "map",
    "cartography", "cartography", "cartography",
    "habitat", "habitat", "habitat",
    "biome", "biome", "biome",
    "altitude", "altitude", "altitude",
    "sea level", "sea level", "sea level",
    "landform", "landform", "landform",
    "delta", "delta", "delta",
    "canyon", "canyon", "canyon",
    "valley", "valley", "valley",
    "glacier", "glacier", "glacier"
  >>

\* keywordMap["Literature"] (part_001:681-714); every term is listed three times, as in the source.
kwLiterature ==
  <<
    "novel", "novel", "novel",
    "poem", "poem", "poem",
    "poetry", "poetry", "poetry",
    "literature", "literature", "literature",
    "character", "character", "character",
    "narrative", "narrative", "narrative",
    "prose", "prose", "prose",
    "metaphor", "metaphor", "metaphor",
    "allegory", "allegory", "allegory",
    "symbolism", "symbolism", "symbolism",
    "theme", "theme", "theme",
    "plot", "plot", "plot",
    "drama", "drama", "drama",
    "tragedy", "tragedy", "tragedy",
    "comedy", "comedy", "comedy",
    "author", "author", "author",
    "genre", "genre", "genre",
    "fiction", "fiction", "fiction",
    "nonfiction", "nonfiction", "nonfiction",
    "myth", "myth", "myth",
    "legend", "legend", "legend",
    "epic", "epic", "epic",
    "short story", "short story", "short story",
    "rhetoric", "rhetoric", "rhetoric",
    "dialogue", "dialogue", "dialogue",
    "narrator", "narrator", "narrator",
    "memoir", "memoir", "memoir",
    "biography", "biography", "biography",
    "autobiography", "autobiography", "autobiography",
    "manuscript", "manuscript", "manuscript",
    "allusion", "allusion", "allusion",
    "satire", "satire", "satire",
    "imagery", "imagery", "imagery"
  >>

\* keywordMap["Language"] (part_001:717-742); every term is listed three times, as in the source.
kwLanguage ==
  <<
    "grammar", "grammar", "grammar",
    "vocabulary", "vocabulary", "vocabulary",
    "sentence", "sentence", "sentence",
    "syntax", "syntax", "syntax",
    "linguistics", "linguistics", "linguistics",
    "translation", "translation", "translation",
    "phonetics", "phonetics", "phonetics",
    "phonology", "phonology", "phonology",
    "morphology", "morphology", "morphology",
    "semantics", "semantics", "semantics",
    "pragmatics", "pragmatics", "pragmatics",
    "dialect", "dialect", "dialect",
    "accent", "accent", "accent",
    "lexicon", "lexicon", "lexicon",
    "conjugation", "conjugation", "conjugation",
    "declension", "declension", "declension",
    "orthography", "orthography", "orthography",
    "writing system", "writing system", "writing system",
    "etymology", "etymology", "etymology",
    "discourse", "discourse", "discourse",
    "phrase", "phrase", "phrase",
    "idiom", "idiom", "idiom",
    "bilingual", "bilingual", "bilingual",
    "multilingual", "multilingual", "multilingual",
    "pronunciation", "pronunciation", "pronunciation"
  >>

\* keywordMap["Art"] (part_001:745-771); every term is listed three times, as in the source.
kwArt ==
  <<
    "painting", "painting", "painting",
    "sculpture", "sculpture", "sculpture",
    "canvas", "canvas", "canvas",
    "gallery", "gallery", "gallery",
    "museum", "museum", "museum",
    "visual", "visual", "visual",
    "aesthetics", "aesthetics", "aesthetics",
    "portrait", "portrait", "portrait",
    "landscape", "landscape", "landscape",
    "abstract", "abstract", "abstract",
    "expressionism", "expressionism", "expressionism",
    "realism", "realism", "realism",
    "surrealism", "surrealism", "surrealism",
    "impressionism", "impressionism", "impressionism",
    "installation", "installation", "installation",
    "performance art", "performance art", "performance art",
    "fine art", "fine art", "fine art",
    "brushstroke", "brushstroke", "brushstroke",
    "composition", "composition", "composition",
    "color theory", "color theory", "color theory",
    "perspective", "perspective", "perspective",
    "illustration", "illustration", "illustration",
    "sketch", "sketch", "sketch",
    "modern art", "modern art", "modern art",
    "contemporary art", "contemporary art", "contemporary art",
    "exhibit", "exhibit", "exhibit"
  >>

\* keywordMap["Music"] (part_001:774-806); every term is listed three times, as in the source.
kwMusic ==
  <<
    "melody", "melody", "melody",
    "harmony", "harmony", "harmony",
    "rhythm", "rhythm", "rhythm",
    "instrument", "instrument", "instrument",
    "composer", "composer", "composer",
    "song", "song", "song",
    "audio", "audio", "audio",
    "pitch", "pitch", "pitch",
    "tempo", "tempo", "tempo",
    "tone", "tone", "tone",
    "timbre", "timbre", "timbre",
    "scale", "scale", "scale",
    "chord", "chord", "chord",
    "genre", "genre", "genre",
    "orchestra", "orchestra", "orchestra",
    "symphony", "symphony", "symphony",
    "opera", "opera", "opera",
    "choir", "choir", "choir",
    "band", "band", "band",
    "beat", "beat", "beat",
    "lyrics", "lyrics", "lyrics",
    "arrangement", "arrangement", "arrangement",
    "composition", "composition", "composition",
    "improvisation", "improvisation", "improvisation",
    "acoustic", "acoustic", "acoustic",
    "electronic", "electronic", "electronic",
    "soundtrack", "soundtrack", "soundtrack",
    "mixing", "mixing", "mixing",
    "recording", "recording", "recording",
    "notation", "notation", "notation",
    "conductor", "conductor", "conductor",
    "performance", "performance", "performance"
  >>

\* keywordMap["Sports"] (part_001:809-839); every term is listed three times, as in the source.
kwSports ==
  <<
    "tournament", "tournament", "tournament",
    "score", "score", "score",
    "player", "player", "player",
    "match", "match", "match",
    "athlete", "athlete", "athlete",
    "game", "game", "game",
    "league", "league", "league",
    "championship", "championship", "championship",
    "coach", "coach", "coach",
    "training", "training", "training",
    "stadium", "stadium", "stadium",
    "team", "team", "team",
    "referee", "referee", "referee",
    "offense", "offense", "offense",
    "defense", "defense", "defense",
    "tactics", "tactics", "tactics",
    "strategy", "strategy", "strategy",
    "injury", "injury", "injury",
    "endurance", "endurance", "endurance",
    "competition", "competition", "competition",
    "sportsmanship", "sportsmanship", "sportsmanship",
    "record", "record", "record",
    "ranking", "ranking", "ranking",
    "event", "event", "event",
    "marathon", "marathon", "marathon",
    "sprint", "sprint", "sprint",
    "ball", "ball", "ball",
    "equipment", "equipment", "equipment",
    "playoff", "playoff", "playoff",
    "fitness", "fitness", "fitness"
  >>

\* keywordMap["Entertainment"] (part_001:842-871); every term is listed three times, as in the source.
kwEntertainment ==
  <<
    "movie", "movie", "movie",
    "film", "film", "film",
    "television", "television", "television",
    "celebrity", "celebrity", "celebrity",
    "show", "show", "show",
    "entertainment", "entertainment", "entertainment",
    "series", "series", "series",
    "episode", "episode", "episode",
    "director", "director", "director",
    "actor", "actor", "actor",
    "actress", "actress", "actress",
    "script", "script", "script",
    "screenplay", "screenplay", "screenplay",
    "animation", "animation", "animation",
    "cartoon", "cartoon", "cartoon",
    "streaming", "streaming", "streaming",
    "documentary", "documentary", "documentary",
    "thriller", "thriller", "thriller",
    "comedy", "comedy", "comedy",
    "drama", "drama", "drama",
    "action", "action", "action",
    "cinema", "cinema", "cinema",
    "franchise", "franchise", "franchise",
    "soundtrack", "soundtrack", "soundtrack",
    "visual effects", "visual effects", "visual effects",
    "special effects", "special effects", "special effects",
    "broadcast", "broadcast", "broadcast",
    "media", "media", "media",
    "trailer", "trailer", "trailer"
  >>

\* Object.entries(keywordMap): the subjects in declaration order, each with its keyword list.
keywordMap ==
  <<
    <<"Mathematics", kwMathematics>>,
    <<"Physics", kwPhysics>>,
    <<"Chemistry", kwChemistry>>,
    <<"Biology", kwBiology>>,
    <<"Programming", kwProgramming>>,
    <<"Computer Science", kwComputerScience>>,
    <<"History", kwHistory>>,
    <<"Geography", kwGeography>>,
    <<"Literature", kwLiterature>>,
    <<"Language", kwLanguage>>,
    <<"Art", kwArt>>,
    <<"Music", kwMusic>>,
    <<"Sports", kwSports>>,
    <<"Entertainment", kwEntertainment>>
  >>

\* ------------------------------------------------------------------------
\* Request content and the outcomes of external calls
\* ------------------------------------------------------------------------

\* req.body.content is a string (typed text, or a text file read as utf8); an uploaded
\* audio file is the multer file object (originalname, mimetype, buffer).
StringContent(s) == [kind |-> "string", text |-> s, originalname |-> "", mimetype |-> ""]
FileContent(name, mime) == [kind |-> "file", text |-> "", originalname |-> name, mimetype |-> mime]

\* model.generateContent(..) either resolves to a response whose text() is a string, or
\* rejects (or its text() throws).
Resolved(t) == [ok |-> TRUE, text |-> t]
Rejected == [ok |-> FALSE, text |-> ""]

\* ------------------------------------------------------------------------
\* detectSubject: the decision
\* ------------------------------------------------------------------------

\* modelMapped = null: the model response maps to no label. Every label is a non-empty
\* string and the code only tests `if (modelMapped)`.
NoMapping == ""

\* normalizeDetected: null for an empty response (only `if (cleaned)` reads it, and ""
\* is falsy like null), else quotes removed, first line, text before the first '.'.
normalizeDetected(raw) ==
  IF raw = "" THEN ""
  ELSE trim(splitFirst(splitFirst(trim(removeQuotes(raw)), "\n"), "."))

\* Array.prototype.find / the first hit of a for-loop: the least index of a non-empty set.
firstIndex(S) == CHOOSE i \in S : \A j \in S : i <= j

\* mapResponse with the synonym table consulted before the containment test.
mapResponse_SynonymsFirst(cleaned) ==
  IF cleaned = "" THEN NoMapping
  ELSE
    LET lc == toLowerCase(cleaned)
        exact == {i \in DOMAIN allowedSubjects : allowedLower[i] = lc}
        contains == {i \in DOMAIN allowedSubjects : includes(lc, allowedLower[i])}
        syn == {i \in DOMAIN synonyms : includes(lc, synonyms[i][1])}
    IN IF exact # {} THEN allowedSubjects[firstIndex(exact)]
       ELSE IF syn # {} THEN synonyms[firstIndex(syn)][2]
       ELSE IF contains # {} THEN allowedSubjects[firstIndex(contains)]
       ELSE NoMapping

\* The mapping of the cleaned model response: exact match, then label contained in the
\* response, then the first synonym key contained in the response, else null.
mapResponse(cleaned) ==
  IF cleaned = "" THEN NoMapping
  ELSE
    LET lc == toLowerCase(cleaned)
        exact == {i \in DOMAIN allowedSubjects : allowedLower[i] = lc}
        contains == {i \in DOMAIN allowedSubjects : includes(lc, allowedLower[i])}
        syn == {i \in DOMAIN synonyms : includes(lc, synonyms[i][1])}
    IN IF exact # {} THEN allowedSubjects[firstIndex(exact)]
       ELSE IF contains # {} THEN allowedSubjects[firstIndex(contains)]
       ELSE IF syn # {} THEN synonyms[firstIndex(syn)][2]
       ELSE NoMapping

\* One pass of the scoring loop: the number of entries of keywords that the
\* lower-cased text includes (an entry listed n times counts n times).
keywordScore(textLower, keywords) ==
  Cardinality({i \in DOMAIN keywords :
                 keywords[i] # "" /\ includes(textLower, keywords[i])})

\* scores, as Object.entries(scores): <<subject, score>> in the order of the map.
scoreEntries(textLower, map) ==
  [i \in DOMAIN map |-> <<map[i][1], keywordScore(textLower, map[i][2])>>]

\* sortByScoreDesc with a sort that reverses the entries of equal score.
sortByScoreDesc_TiesReversed(entries) ==
  LET rank(i) == Cardinality({j \in DOMAIN entries : entries[j][2] > entries[i][2]})
                 + Cardinality({j \in DOMAIN entries : j > i /\ entries[j][2] = entries[i][2]})
                 + 1
  IN [p \in DOMAIN entries |-> entries[CHOOSE i \in DOMAIN entries : rank(i) = p]]

\* entries.sort((a,b) => b[1]-a[1]): descending by score; Array.prototype.sort is
\* stable, so entries of equal score keep their order.
sortByScoreDesc(entries) ==
  LET rank(i) == Cardinality({j \in DOMAIN entries : entries[j][2] > entries[i][2]})
                 + Cardinality({j \in DOMAIN entries : j < i /\ entries[j][2] = entries[i][2]})
                 + 1
  IN [p \in DOMAIN entries |-> entries[CHOOSE i \in DOMAIN entries : rank(i) = p]]

\* scores[subject] || 0
scoreOf(entries, subject) ==
  LET hit == {i \in DOMAIN entries : entries[i][1] = subject}
  IN IF hit = {} THEN 0 ELSE entries[firstIndex(hit)][2]

\* Typed texts (or transcripts) sent as the content of a /generate-notes request.
RequestTexts ==
  { " \n ",
    "The TEAM wrote CODE" }

\* Texts handed to detectSubject when it is applied on its own.
PureTexts ==
  { "",
    " \n ",
    "Explain the mitochondria and its role in ATP synthesis",
    "Python Java SQL API",
    "The TEAM wrote CODE",
    "coach, player and team debug",
    "the integral of a function",
    "Notes on the Roman empire" }

\* The scoring loop of detectSubject (scores, as Object.entries) for each text of the
\* model, computed once.
heuristicScores ==
  [t \in PureTexts \cup RequestTexts |-> scoreEntries(toLowerCase(t), keywordMap)]

\* decideSubject falling back to the language sentinel "unknown" instead of "General".
decideSubject_UnknownFallback(entries, mapped) ==
  LET sortedScores == sortByScoreDesc(entries)
      heuristicSubject == sortedScores[1][1]
      heuristicScore == sortedScores[1][2]
      modelScore == scoreOf(entries, mapped)
  IN IF mapped # NoMapping
     THEN IF heuristicScore >= 2 /\ heuristicSubject # mapped /\ heuristicScore > modelScore
          THEN heuristicSubject
          ELSE mapped
     ELSE IF heuristicScore > 0 THEN heuristicSubject ELSE "unknown"

\* The decision logic at the end of detectSubject.
decideSubject(entries, mapped) ==
  LET sortedScores == sortByScoreDesc(entries)
      heuristicSubject == sortedScores[1][1]
      heuristicScore == sortedScores[1][2]
      modelScore == scoreOf(entries, mapped)
  IN IF mapped # NoMapping
     THEN IF heuristicScore >= 2 /\ heuristicSubject # mapped /\ heuristicScore > modelScore
          THEN heuristicSubject
          ELSE mapped
     ELSE IF heuristicScore > 0 THEN heuristicSubject ELSE "General"

\* raw.split(/\r?\n/): the pieces of raw between its line breaks.
RECURSIVE splitLines(_)
splitLines(raw) ==
  IF ~includes(raw, "\n") THEN <<raw>>
  ELSE LET head == splitFirst(raw, "\n")
           piece == IF head # "" /\ SubSeq(head, Len(head), Len(head)) = "\r"
                    THEN SubSeq(head, 1, Len(head) - 1)
                    ELSE head
       IN <<piece>> \o splitLines(SubSeq(raw, Len(head) + 2, Len(raw)))

\* raw.split(/\r?\n/).map(l => l.trim()).filter(Boolean)
nonEmptyLines(raw) ==
  SelectSeq([i \in DOMAIN splitLines(raw) |-> trim(splitLines(raw)[i])], LAMBDA l : l # "")

\* The values of the string literals the three RegExp objects are built from: `\\` in a
\* JavaScript string literal is one backslash, as it is here.
mathRegexStr ==
  "\\\\frac|\\\\sum|\\\\int|\\\\sqrt|\\\\theta|\\\\alpha|\\\\beta|\\d+\\\\s*=|\\\\bderivative\\\\b|\\^|sin\\\\(|cos\\\\(|tan\\\\(|lim\\\\b|=>|<=|>="
unitRegexStr == "\\b(m|cm|mm|kg|g|mol|N|Pa|J|W|Hz|K|ppm)\\b"
signalRegexStr ==
  "\\b(definition|theorem|proof|lemma|example|algorithm|reaction|synthesis|transcript|transcription|study guide|exercise|solution|procedure)\\b"

\* The character at position i of a pattern is escaped: an odd number of backslashes
\* stands right before it.
escapedAt(pattern, i) ==
  LET run == CHOOSE k \in 0..(i - 1) :
               /\ \A j \in (i - k)..(i - 1) : SubSeq(pattern, j, j) = "\\"
               /\ (i - k - 1 = 0 \/ SubSeq(pattern, i - k - 1, i - k - 1) # "\\")
  IN run % 2 = 1

\* The positions of the unescaped `(` and `)` of a pattern: the first open a group, the
\* second close one. None of the patterns has a character class.
groupOpens(pattern) ==
  {i \in 1..Len(pattern) : SubSeq(pattern, i, i) = "(" /\ ~escapedAt(pattern, i)}
groupCloses(pattern) ==
  {i \in 1..Len(pattern) : SubSeq(pattern, i, i) = ")" /\ ~escapedAt(pattern, i)}

\* new RegExp(pattern) throws a SyntaxError for an unterminated group or an unmatched `)`.
RegExpThrows(pattern) ==
  \/ Cardinality(groupOpens(pattern)) # Cardinality(groupCloses(pattern))
  \/ \E i \in groupCloses(pattern) :
        Cardinality({j \in groupCloses(pattern) : j <= i}) >
        Cardinality({j \in groupOpens(pattern) : j < i})

\* The first RegExp constructor of formatForSubjectDetection that throws, if one does.
formatRegExpThrows ==
  RegExpThrows(mathRegexStr) \/ RegExpThrows(unitRegexStr) \/ RegExpThrows(signalRegexStr)

\* The outcome of a call: a SyntaxError, or the string returned.
Threw == [threw |-> TRUE, value |-> ""]
Returned(value) == [threw |-> FALSE, value |-> value]

\* lines.find(l => l.length > 0 && l.length < 120) || lines[0]
titleOf(lines) ==
  LET short == {i \in DOMAIN lines : Len(lines[i]) > 0 /\ Len(lines[i]) < 120}
  IN IF short = {} THEN lines[1] ELSE lines[firstIndex(short)]

\* excerptParts of a text none of whose lines is a heading, a math line, a unit line or
\* a signal line: the title, then the first 60 lines.
excerptParts(lines) == <<titleOf(lines)>> \o SubSeq(lines, 1, 60)

\* excerptParts.join("\n")
RECURSIVE join(_)
join(parts) ==
  IF parts = <<>> THEN ""
  ELSE IF Len(parts) = 1 THEN parts[1]
  ELSE parts[1] \o "\n" \o join(Tail(parts))

\* formatForSubjectDetection(raw): "" for a value that is not a non-empty string or has
\* no non-blank line; otherwise the RegExp objects are constructed, and the excerpt is
\* composed only if every constructor returns.
formatForSubjectDetection(raw) ==
  IF raw.kind # "string" \/ raw.text = "" THEN Returned("")
  ELSE IF nonEmptyLines(raw.text) = <<>> THEN Returned("")
  ELSE IF formatRegExpThrows THEN Threw
  ELSE LET composed == trim(removeQuotes(join(excerptParts(nonEmptyLines(raw.text)))))
       IN Returned(IF Len(composed) > 4000 THEN SubSeq(composed, 1, 4000) ELSE composed)

\* detectSubject reaches the keyword loop: the excerpt was formatted, the model call
\* resolved and the text is a string.
scoresReached(content, response) ==
  ~formatForSubjectDetection(content).threw /\ response.ok /\ content.kind = "string"

\* detectSubject(text) with the outcome of its one model call. The excerpt is formatted
\* first, inside the try block: a SyntaxError thrown there, a rejected call, and the
\* TypeError of toLowerCase on a file object all end in the catch block.
detectSubject(content, response) ==
  IF formatForSubjectDetection(content).threw THEN "General"
  ELSE IF ~response.ok THEN "General"
  ELSE IF content.kind # "string" THEN "General"
  ELSE decideSubject(heuristicScores[content.text],
                     mapResponse(normalizeDetected(trim(response.text))))

\* ------------------------------------------------------------------------
\* postDetectSubject
\* ------------------------------------------------------------------------

\* Object.entries(synonyms) of postDetectSubject.
postSynonyms ==
  <<
    <<"computer science", "Computer Science">>,
    <<"cs", "Computer Science">>,
    <<"coding", "Programming">>,
    <<"programming", "Programming">>,
    <<"math", "Mathematics">>,
    <<"mathematics", "Mathematics">>,
    <<"physics", "Physics">>,
    <<"chemistry", "Chemistry">>,
    <<"biology", "Biology">>,
    <<"history", "History">>,
    <<"geography", "Geography">>,
    <<"literature", "Literature">>,
    <<"language", "Language">>,
    <<"linguistics", "Language">>,
    <<"art", "Art">>,
    <<"music", "Music">>,
    <<"sports", "Sports">>,
    <<"sport", "Sports">>,
    <<"entertainment", "Entertainment">>,
    <<"general", "General">>
  >>

\* Object.entries(smallKeywordMap).
smallKeywordMap ==
  <<
    <<"Sports", <<"player", "team", "coach", "tournament", "match", "score", "goal", "stadium",
                  "athlete", "training", "league", "referee", "offense", "defense", "marathon",
                  "sprint", "competition", "fitness", "game", "scoreboard", "coach">> >>,
    <<"Programming", <<"function", "variable", "algorithm", "code", "compile", "runtime", "bug",
                       "debug", "array", "json", "api", "javascript", "python", "java">> >>,
    <<"Mathematics", <<"integral", "derivative", "calculus", "algebra", "matrix", "theorem",
                       "probability", "statistics", "geometry", "trigonometry">> >>,
    <<"Physics", <<"force", "quantum", "relativity", "momentum", "energy", "velocity", "gravity",
                   "entropy", "thermodynamics", "optics">> >>,
    <<"Chemistry", <<"molecule", "reaction", "atom", "bond", "ph", "catalyst", "organic",
                     "inorganic", "stoichiometry", "spectroscopy">> >>,
    <<"Biology", <<"cell", "dna", "genome", "protein", "photosynthesis", "mitosis", "meiosis",
                   "enzyme", "organism", "ecology">> >>,
    <<"History", <<"war", "empire", "revolution", "ancient", "medieval", "dynasty", "treaty",
                   "colonial", "civilization">> >>,
    <<"Geography", <<"continent", "country", "climate", "latitude", "longitude", "topography",
                     "river", "mountain", "ocean", "map">> >>,
    <<"Literature", <<"novel", "poem", "poetry", "character", "narrative", "prose", "metaphor",
                      "plot", "drama", "genre">> >>,
    <<"Language", <<"grammar", "vocabulary", "syntax", "linguistics", "translation", "phonetics",
                    "morphology", "semantics">> >>,
    <<"Art", <<"painting", "sculpture", "canvas", "gallery", "museum", "aesthetics", "portrait",
               "landscape">> >>,
    <<"Music", <<"melody", "harmony", "rhythm", "instrument", "composer", "song", "pitch",
                 "tempo">> >>,
    <<"Entertainment", <<"movie", "film", "television", "celebrity", "series", "episode",
                         "director", "actor", "script">> >>
  >>

\* getTextForAnalysis without the final toLowerCase().
getTextForAnalysis_NoLowerCase(generatedText, originalContent) ==
  LET o == IF originalContent.kind = "string" THEN originalContent.text
           ELSE originalContent.originalname
  IN generatedText \o "\n" \o o

\* getTextForAnalysis: generated text, a newline, and the original content (a string, or
\* the uploaded file's originalname), lower-cased.
getTextForAnalysis(generatedText, originalContent) ==
  LET o == IF originalContent.kind = "string" THEN originalContent.text
           ELSE originalContent.originalname
  IN toLowerCase(generatedText \o "\n" \o o)

\* Steps 1 and 2 of postDetectSubject: the first allowed label, else the first synonym
\* key, that the text mentions; NoMapping when it mentions none.
postMention(text) ==
  LET direct == {i \in DOMAIN allowedSubjects : includes(text, allowedLower[i])}
      syn == {i \in DOMAIN postSynonyms : includes(text, postSynonyms[i][1])}
  IN IF direct # {} THEN allowedSubjects[firstIndex(direct)]
     ELSE IF syn # {} THEN postSynonyms[firstIndex(syn)][2]
     ELSE NoMapping

\* postScored without the lower threshold for Sports.
postScored_NoSportsThreshold(text, currentSubject) ==
  LET scores == scoreEntries(text, smallKeywordMap)
      sorted == sortByScoreDesc(scores)
      top == sorted[1]
      second == sorted[2]
  IN IF top[2] >= 3 /\ top[2] - second[2] >= 2 THEN top[1]
     ELSE currentSubject

\* Step 3 onwards: the small-lexicon scores and the two thresholds.
postScored(text, currentSubject) ==
  LET scores == scoreEntries(text, smallKeywordMap)
      sorted == sortByScoreDesc(scores)
      top == sorted[1]
      second == sorted[2]
  IN IF top[2] >= 3 /\ top[2] - second[2] >= 2 THEN top[1]
     ELSE IF scoreOf(scores, "Sports") >= 2 THEN "Sports"
     ELSE currentSubject

postDetectSubject(generatedText, originalContent, currentSubject) ==
  LET text == getTextForAnalysis(generatedText, originalContent)
      mentioned == postMention(text)
  IN IF trim(text) = "" THEN currentSubject
     ELSE IF mentioned # NoMapping THEN mentioned
     ELSE postScored(text, currentSubject)

\* ------------------------------------------------------------------------
\* detectLanguage and the language-validation target
\* ------------------------------------------------------------------------

\* cleanLang: the trimmed response, its first line, the text before the first '.'.
cleanLanguage(raw) ==
  trim(splitFirst(splitFirst(trim(raw), "\n"), "."))

\* detectLanguage(text) with the outcome of its model call; text.substring on a file
\* object and a rejected call both end in the catch block.
detectLanguage(content, response) ==
  IF content.kind # "string" THEN "unknown"
  ELSE IF ~response.ok THEN "unknown"
  ELSE cleanLanguage(response.text)

\* The retry condition after the first detection of a typed text.
retryLanguage(lang) ==
  lang = "unknown" \/ includes(lang, "English") \/ includes(lang, "##")

\* targetLanguage without the test for the sentinel "unknown".
targetLanguage_KeepsSentinel(lang) ==
  IF lang # "" THEN lang ELSE "English"

\* targetLanguage: the detected language, English when detection failed.
targetLanguage(lang) ==
  IF lang # "" /\ lang # "unknown" THEN lang ELSE "English"

\* validatedNotes without the test that the correction is non-blank.
validatedNotes_BlankReplaces(notes, response) ==
  IF response.ok THEN trim(response.text) ELSE notes

\* The validated notes: the trimmed correction when the call returned non-blank text,
\* else the generated notes as they were.
validatedNotes(notes, response) ==
  IF response.ok /\ trim(response.text) # "" THEN trim(response.text) ELSE notes

\* ------------------------------------------------------------------------
\* Inputs of a /generate-notes request
\* ------------------------------------------------------------------------

\* req.body.type values: missing, the two accepted ones, another one.
RequestTypes == {"", "text", "audio", "video"}

\* content values: missing or empty, typed text, an uploaded audio file.
RequestContents ==
  {StringContent("")} \cup {StringContent(t) : t \in RequestTexts}
    \cup {FileContent("lecture.mp3", "audio/mpeg")}

\* Outcomes of the model calls of one request.
LanguageResponses ==
  {Rejected, Resolved(" "), Resolved("English"), Resolved("Tamil.\nThe text is Tamil")}
SubjectResponses == {Rejected, Resolved("Sports"), Resolved("Astronomy")}
GenerationResponses ==
  {Rejected, Resolved(""), Resolved("The player scored a goal for the team")}
ValidationResponses == {Rejected, Resolved(" "), Resolved(" Organic Chemistry of the team \n")}

\* The notes a request can hold when the subject is re-checked.
RequestNotes ==
  {validatedNotes(g.text, v) : g \in {r \in GenerationResponses : r.ok}, v \in ValidationResponses}

AllowedSet == {allowedSubjects[i] : i \in DOMAIN allowedSubjects}

\* postDetectSubject on the notes, contents and subjects of the model's requests,
\* computed once (the function is pure).
postDetectSubjectOf ==
  [n \in RequestNotes, c \in RequestContents, s \in AllowedSet |-> postDetectSubject(n, c, s)]

\* The override after postDetectSubject: `if (overridden && overridden !== detectedSubject)`.
overrideSubject(notes, content, subject) ==
  LET overridden == postDetectSubjectOf[notes, content, subject]
  IN IF overridden # "" /\ overridden # subject THEN overridden ELSE subject

\* ------------------------------------------------------------------------
\* The server: state
\* ------------------------------------------------------------------------

\* Requests served in one behaviour, over all routes.
MaxRequests == 2

\* The requests in flight beside the /generate-notes request (slot 0): a caller of
\* /api/db-status or of a /api/notes route. Each runs ensureDBConnection once per request.
Callers == {1}
Slots == {0} \cup Callers

VARIABLES
  isDatabaseConnected,  \* the module-level flag
  readyState,           \* mongoose.connection.readyState: 0 disconnected, 1 connected, 2 connecting
  mongoUriSet,          \* process.env.MONGO_URI is set
  ens,                  \* per slot, the call of ensureDBConnection in progress
  store,                \* the notes collection: the documents saved, in order
  requests,             \* number of requests received so far
  pc,                   \* /generate-notes handler: the await it is suspended at
  type,                 \* req.body.type ("" when missing)
  content,              \* content, after the upload handling
  detectedLanguage,
  detectedSubject,
  generatedNotes,
  dbConnected,          \* what ensureDBConnection returned to the handler
  savedNote,            \* _id of the document saveNotes returned (0: none)
  generated,            \* result.response.text() of the generation call ("" before it)
  validatedText,        \* languageValidationResult.response.text() ("" before it, or if it threw)
  targetLang,           \* targetLanguage ("" before the generation call has returned)
  calls,                \* the steps the handler has completed, in order, each with
                        \* whether it went through (its call resolved, nothing was caught)
  resp,                 \* the response sent ([code |-> 0] while none is)
  sent,                 \* number of responses the handler has sent for the request
  deleted,              \* the _id of every note deleted so far
  callerPc,             \* per caller, the await its request is suspended at
  callerResp,           \* per caller, the response sent ([code |-> 0] while none is)
  callerReq,            \* per caller, the route requested and req.params.id
  callerDb              \* per caller, the middleware's `dbConnected`

serverVars ==
  <<isDatabaseConnected, readyState, mongoUriSet, ens, store, requests, pc, type, content,
    detectedLanguage, detectedSubject, generatedNotes, dbConnected, savedNote, generated,
    validatedText, targetLang, calls, resp, sent, deleted, callerPc, callerResp, callerReq,
    callerDb>>

VARIABLES
  fn,            \* the function under call: "detectSubject", "postDetectSubject" or
                 \* "formatForSubjectDetection"
  argContent,    \* detectSubject's text / postDetectSubject's originalContent
  argResponse,   \* the outcome of detectSubject's model call
  argGenerated,  \* postDetectSubject's generatedText
  argCurrent,    \* postDetectSubject's currentSubject
  called,        \* the call has returned
  ret,           \* its return value
  retScores,     \* the function's local `scores` (<<>> when the loop was not reached)
  retMapped,     \* detectSubject's local `modelMapped` (NoMapping for null)
  retTop,        \* the label of the first entry of the sorted scores ("" when not sorted)
  retThrew       \* formatForSubjectDetection threw instead of returning

pureVars ==
  <<fn, argContent, argResponse, argGenerated, argCurrent, called, ret, retScores, retMapped,
    retTop, retThrew>>

VARIABLES
  googleKey,       \* process.env.GEMINI_API_KEY is set
  uploads,         \* number of requests receiveNote has received so far
  tPc,             \* transcribeAndSave: the await it is suspended at, or how it ended
  tFile,           \* req.file of the last upload (NoFile before the first)
  tResp,           \* the response receiveNote sent ([code |-> 0] while none is)
  disk,            \* the paths of the audio files present on disk
  processingPath,  \* transcribeAndSave's local `processingPath`
  finalMimeType,   \* transcribeAndSave's local `finalMimeType`
  sentAudio,       \* the file and MIME type handed to generateContent (NoAudio: none yet)
  written,         \* the transcript and its metadata have been written
  tSteps           \* the calls transcribeAndSave has completed, in order

uploadVars ==
  <<googleKey, uploads, tPc, tFile, tResp, disk, processingPath, finalMimeType, sentAudio,
    written, tSteps>>

vars == <<serverVars, pureVars, uploadVars>>

\* An entry of calls.
Step(name, ok) == [call |-> name, ok |-> ok]

NoCall == [pc |-> "none", val |-> FALSE]
NoResponse == [code |-> 0]
\* req of a caller: the route ("db-status", or the notes route "list", "get" or "delete")
\* and req.params.id (0 when the route has none).
Request(route, id) == [route |-> route, id |-> id]
NoRequest == Request("none", 0)

\* The slot a new request of a caller takes: the callers are interchangeable, so it is
\* the first one with no request in progress.
freeCaller(c) ==
  /\ callerPc[c] = "idle"
  /\ \A d \in Callers : callerPc[d] = "idle" => c <= d

\* The server before its first request, with the notes the collection already holds.
ServerStart(notes) ==
  /\ ens = [s \in Slots |-> NoCall]
  /\ store = notes
  /\ requests = 0
  /\ pc = "idle"
  /\ type = ""
  /\ content = StringContent("")
  /\ detectedLanguage = "unknown"
  /\ detectedSubject = "General"
  /\ generatedNotes = ""
  /\ dbConnected = FALSE
  /\ savedNote = 0
  /\ generated = ""
  /\ validatedText = ""
  /\ targetLang = ""
  /\ calls = <<>>
  /\ resp = NoResponse
  /\ sent = 0
  /\ deleted = {}
  /\ callerPc = [c \in Callers |-> "idle"]
  /\ callerResp = [c \in Callers |-> NoResponse]
  /\ callerReq = [c \in Callers |-> NoRequest]
  /\ callerDb = [c \in Callers |-> FALSE]

ServerIdle == ServerStart(<<>>)

PureIdle ==
  /\ fn = "none"
  /\ argContent = StringContent("")
  /\ argResponse = Rejected
  /\ argGenerated = ""
  /\ argCurrent = "General"
  /\ called = FALSE
  /\ ret = ""
  /\ retScores = <<>>
  /\ retMapped = NoMapping
  /\ retTop = ""
  /\ retThrew = FALSE

\* req.file as the upload middleware leaves it.
File(filePath, name, mime) == [path |-> filePath, originalname |-> name, mimetype |-> mime]
NoFile == File("", "", "")
NoAudio == [path |-> "", mimeType |-> ""]

\* The upload route before its first request, with the API key set or not.
UploadStart(key) ==
  /\ googleKey = key
  /\ uploads = 0
  /\ tPc = "idle"
  /\ tFile = NoFile
  /\ tResp = NoResponse
  /\ disk = {}
  /\ processingPath = ""
  /\ finalMimeType = ""
  /\ sentAudio = NoAudio
  /\ written = FALSE
  /\ tSteps = <<>>

UploadIdle == UploadStart(FALSE)

\* The server once startServer has run connectDB (or, exported for serverless use,
\* without it): the flag is what connectDB returned.
Init ==
  /\ mongoUriSet \in BOOLEAN
  /\ isDatabaseConnected \in (IF mongoUriSet THEN BOOLEAN ELSE {FALSE})
  /\ readyState = IF isDatabaseConnected THEN 1 ELSE 0
  /\ ServerIdle
  /\ PureIdle
  /\ UploadIdle

\* ------------------------------------------------------------------------
\* connectDB, ensureDBConnection and the mongoose connection
\* ------------------------------------------------------------------------

\* ensureStart without the `if (!isDatabaseConnected)` guard of ensureDBConnection:
\* connectDB is called on every request.
ensureStart_NoFlagCheck ==
  IF ~mongoUriSet THEN [pc |-> "returned", val |-> FALSE]
  ELSE IF readyState = 1 THEN [pc |-> "returned", val |-> TRUE]
  ELSE [pc |-> "connecting", val |-> FALSE]

\* ensureDBConnection up to its first suspension: the flag check, and connectDB up to
\* `await mongoose.connect(..)`. A connectDB that returns without reaching the connect
\* call is followed by the assignment to the flag with no event in between.
ensureStart ==
  IF isDatabaseConnected THEN [pc |-> "returned", val |-> TRUE]
  ELSE IF ~mongoUriSet THEN [pc |-> "returned", val |-> FALSE]
  ELSE IF readyState = 1 THEN [pc |-> "returned", val |-> TRUE]
  ELSE [pc |-> "connecting", val |-> FALSE]

\* A slot calls ensureDBConnection; mongoose.connect(..) puts the connection in state 2.
CallEnsure(s) ==
  /\ ens' = [ens EXCEPT ![s] = ensureStart]
  /\ readyState' = IF ensureStart.pc = "connecting" THEN 2 ELSE readyState
  /\ isDatabaseConnected' =
       IF ensureStart.pc = "returned" THEN ensureStart.val ELSE isDatabaseConnected

\* The connection attempt ends: every pending mongoose.connect(..) resolves, or every
\* one rejects and connectDB returns false from its catch block. The continuations of
\* the waiting calls run before the next event is handled: each assigns the outcome to
\* the flag and returns it.
MongooseSettled(ok) ==
  /\ readyState = 2
  /\ readyState' = IF ok THEN 1 ELSE 0
  /\ isDatabaseConnected' =
       IF \E s \in Slots : ens[s].pc = "connecting" THEN ok ELSE isDatabaseConnected
  /\ ens' = [s \in Slots |->
               IF ens[s].pc = "connecting" THEN [pc |-> "returned", val |-> ok] ELSE ens[s]]
  /\ UNCHANGED <<mongoUriSet, store, deleted, requests, pc, type, content,
                 detectedLanguage, detectedSubject, generatedNotes, dbConnected, savedNote,
                 generated, validatedText, targetLang, calls, resp, sent, callerPc, callerResp,
                 callerReq, callerDb>>
  /\ UNCHANGED <<pureVars, uploadVars>>

\* The established connection is lost.
MongooseDisconnected ==
  /\ readyState = 1
  /\ readyState' = 0
  /\ UNCHANGED <<isDatabaseConnected, mongoUriSet, ens, store, deleted, requests, pc, type, content,
                 detectedLanguage, detectedSubject, generatedNotes, dbConnected, savedNote,
                 generated, validatedText, targetLang, calls, resp, sent, callerPc, callerResp,
                 callerReq, callerDb>>
  /\ UNCHANGED <<pureVars, uploadVars>>

\* ------------------------------------------------------------------------
\* GET /api/db-status
\* ------------------------------------------------------------------------

DbStatusRequest(c) ==
  /\ freeCaller(c)
  /\ requests < MaxRequests
  /\ requests' = requests + 1
  /\ callerPc' = [callerPc EXCEPT ![c] = "ensureDB"]
  /\ callerResp' = [callerResp EXCEPT ![c] = NoResponse]
  /\ callerReq' = [callerReq EXCEPT ![c] = Request("db-status", 0)]
  /\ callerDb' = [callerDb EXCEPT ![c] = FALSE]
  /\ CallEnsure(c)
  /\ UNCHANGED <<mongoUriSet, store, deleted, pc, type, content, detectedLanguage,
                 detectedSubject, generatedNotes, dbConnected, savedNote, generated,
                 validatedText, targetLang, calls, resp, sent>>
  /\ UNCHANGED <<pureVars, uploadVars>>

DbStatusRespond(c) ==
  /\ callerPc[c] = "ensureDB"
  /\ ens[c].pc = "returned"
  /\ callerResp' = [callerResp EXCEPT ![c] =
       [code |-> 200,
        body |-> [database_connected |-> ens[c].val,
                  mongoose_state |-> readyState,
                  mongo_uri_set |-> mongoUriSet]]]
  /\ callerPc' = [callerPc EXCEPT ![c] = "idle"]
  /\ callerDb' = [callerDb EXCEPT ![c] = ens[c].val]
  /\ ens' = [ens EXCEPT ![c] = NoCall]
  /\ UNCHANGED callerReq
  /\ UNCHANGED <<isDatabaseConnected, readyState, mongoUriSet, store, deleted, requests, pc, type,
                 content, detectedLanguage, detectedSubject, generatedNotes, dbConnected,
                 savedNote, generated, validatedText, targetLang, calls, resp, sent>>
  /\ UNCHANGED <<pureVars, uploadVars>>

\* ------------------------------------------------------------------------
\* saveNotes and the Note model
\* ------------------------------------------------------------------------

\* new Note({inputType, generatedNotes}): the document saveNotes builds from noteData.
\* The schema has no other content field; the timestamps are left out of the model.
newNote(id, noteData) ==
  [_id |-> id, inputType |-> noteData.input_type, generatedNotes |-> noteData.generated_notes]

\* The _id of a new document: unique over the documents ever saved. Every save belongs
\* to a request of its own, so the number of requests received so far is one no earlier
\* document carries.
newId == requests

\* Note.findById(id): the positions in the collection of the document with that _id.
findById(id) == {i \in DOMAIN store : store[i]._id = id}

\* Note.find().sort({createdAt: -1}): the documents, the latest first.
findAllSorted == [i \in DOMAIN store |-> store[Len(store) + 1 - i]]

\* without for a delete that leaves the collection as it is.
without_KeepsNotes(gone) == store

\* The collection without the documents at the positions in gone.
without(gone) ==
  LET keep(i) == Cardinality({j \in 1..i : j \notin gone})
  IN [k \in 1..(Len(store) - Cardinality(gone)) |->
        store[CHOOSE i \in DOMAIN store : i \notin gone /\ keep(i) = k]]

\* note.save() can resolve when the connection is up and the document is valid
\* (inputType in the enum, generatedNotes a non-empty string: both `required`).
canSave(noteData) ==
  /\ readyState = 1
  /\ noteData.input_type \in {"text", "audio"}
  /\ noteData.generated_notes # ""

\* ------------------------------------------------------------------------
\* /api/notes: the connection middleware and the list, get and delete handlers
\* ------------------------------------------------------------------------

\* The routes mounted under /api/notes.
NotesRoutes == {"list", "get", "delete"}

\* req.params.id of a request: the _id of a stored note or of a deleted one, or one no
\* note has (0).
NoteIds == {store[i]._id : i \in DOMAIN store} \cup deleted \cup {0}

\* A request to /api/notes arrives: the middleware calls ensureDBConnection.
NotesRequest(c, route, id) ==
  /\ freeCaller(c)
  /\ requests < MaxRequests
  /\ requests' = requests + 1
  /\ callerPc' = [callerPc EXCEPT ![c] = "notesEnsureDB"]
  /\ callerResp' = [callerResp EXCEPT ![c] = NoResponse]
  /\ callerReq' = [callerReq EXCEPT ![c] = Request(route, IF route = "list" THEN 0 ELSE id)]
  /\ callerDb' = [callerDb EXCEPT ![c] = FALSE]
  /\ CallEnsure(c)
  /\ UNCHANGED <<mongoUriSet, store, deleted, pc, type, content, detectedLanguage,
                 detectedSubject, generatedNotes, dbConnected, savedNote, generated,
                 validatedText, targetLang, calls, resp, sent>>
  /\ UNCHANGED <<pureVars, uploadVars>>

\* NotesMiddlewareDone without the `return` before res.status(503): next() is called
\* after the 503 has been sent.
NotesMiddlewareDone_NoReturn(c) ==
  /\ callerPc[c] = "notesEnsureDB"
  /\ ens[c].pc = "returned"
  /\ ens' = [ens EXCEPT ![c] = NoCall]
  /\ callerDb' = [callerDb EXCEPT ![c] = ens[c].val]
  /\ callerPc' = [callerPc EXCEPT ![c] = "notesHandler"]
  /\ callerResp' = [callerResp EXCEPT ![c] =
       IF ens[c].val THEN NoResponse
       ELSE [code |-> 503,
             body |-> [status |-> "error",
                       message |-> "Database not connected. Notes management unavailable."]]]
  /\ UNCHANGED <<isDatabaseConnected, readyState, mongoUriSet, store, deleted, requests, pc, type,
                 content, detectedLanguage, detectedSubject, generatedNotes, dbConnected,
                 savedNote, generated, validatedText, targetLang, calls, resp, sent, callerReq>>
  /\ UNCHANGED <<pureVars, uploadVars>>

\* ensureDBConnection has returned to the middleware: 503, or next() enters the handler
\* of the route, which runs up to its database call.
NotesMiddlewareDone(c) ==
  /\ callerPc[c] = "notesEnsureDB"
  /\ ens[c].pc = "returned"
  /\ ens' = [ens EXCEPT ![c] = NoCall]
  /\ callerDb' = [callerDb EXCEPT ![c] = ens[c].val]
  /\ IF ens[c].val
     THEN /\ callerPc' = [callerPc EXCEPT ![c] = "notesHandler"]
          /\ callerResp' = callerResp
     ELSE /\ callerPc' = [callerPc EXCEPT ![c] = "idle"]
          /\ callerResp' = [callerResp EXCEPT ![c] =
               [code |-> 503,
                body |-> [status |-> "error",
                          message |-> "Database not connected. Notes management unavailable."]]]
  /\ UNCHANGED <<isDatabaseConnected, readyState, mongoUriSet, store, deleted, requests, pc, type,
                 content, detectedLanguage, detectedSubject, generatedNotes, dbConnected,
                 savedNote, generated, validatedText, targetLang, calls, resp, sent, callerReq>>
  /\ UNCHANGED <<pureVars, uploadVars>>

\* The handler's database call settles: getAllNotes, getNoteById or deleteNote answers.
\* The call throws when the connection is down (bufferCommands is false) or the
\* operation fails; the handler's catch block answers 500.
NotesHandlerDone(c, ok) ==
  /\ callerPc[c] = "notesHandler"
  /\ callerPc' = [callerPc EXCEPT ![c] = "idle"]
  /\ LET route == callerReq[c].route
         found == findById(callerReq[c].id)
     IN IF ~(ok /\ readyState = 1)
        THEN /\ deleted' = deleted
             /\ store' = store
             /\ callerResp' = [callerResp EXCEPT ![c] =
                  [code |-> 500,
                   body |-> [status |-> "error",
                             message |-> IF route = "list" THEN "Failed to fetch notes"
                                         ELSE IF route = "get" THEN "Failed to fetch note"
                                         ELSE "Failed to delete note"]]]
        ELSE IF route = "list"
        THEN /\ deleted' = deleted
             /\ store' = store
             /\ callerResp' = [callerResp EXCEPT ![c] =
                  [code |-> 200,
                   body |-> [status |-> "success", count |-> Len(store),
                             notes |-> findAllSorted]]]
        ELSE IF found = {}
        THEN /\ deleted' = deleted
             /\ store' = store
             /\ callerResp' = [callerResp EXCEPT ![c] =
                  [code |-> 404,
                   body |-> [status |-> "error", message |-> "Note not found"]]]
        ELSE IF route = "get"
        THEN /\ deleted' = deleted
             /\ store' = store
             /\ callerResp' = [callerResp EXCEPT ![c] =
                  [code |-> 200,
                   body |-> [status |-> "success", note |-> store[firstIndex(found)]]]]
        ELSE /\ deleted' = deleted \cup {callerReq[c].id}
             /\ store' = without(found)
             /\ callerResp' = [callerResp EXCEPT ![c] =
                  [code |-> 200,
                   body |-> [status |-> "success", message |-> "Note deleted successfully",
                             deletedNote |-> store[firstIndex(found)]]]]
  /\ UNCHANGED <<isDatabaseConnected, readyState, mongoUriSet, ens, requests, pc, type,
                 content, detectedLanguage, detectedSubject, generatedNotes, dbConnected,
                 savedNote, generated, validatedText, targetLang, calls, resp, sent, callerReq,
                 callerDb>>
  /\ UNCHANGED <<pureVars, uploadVars>>

\* ------------------------------------------------------------------------
\* POST /generate-notes
\* ------------------------------------------------------------------------

\* noteData, as prepared before ensureDBConnection.
noteDataOf ==
  [input_type |-> type,
   generated_notes |-> generatedNotes,
   detected_language |-> detectedLanguage,
   detected_subject |-> detectedSubject,
   original_content |-> IF content.kind = "string" THEN content.text
                        ELSE IF content.originalname # "" THEN content.originalname
                        ELSE "audio_file"]

\* The fields every 200 response of the handler carries.
successBody ==
  [status |-> "success",
   input_type |-> type,
   detected_language |-> detectedLanguage,
   detected_subject |-> detectedSubject,
   generated_notes |-> generatedNotes]

\* ReceiveGenerateNotes without the final else branch: every type other than "text" is
\* handled as audio.
ReceiveGenerateNotes_NoTypeCheck(t, c) ==
  /\ pc \in {"idle", "done"}
  /\ requests < MaxRequests
  /\ requests' = requests + 1
  /\ type' = t
  /\ content' = c
  /\ detectedLanguage' = "unknown"
  /\ detectedSubject' = "General"
  /\ generatedNotes' = ""
  /\ dbConnected' = FALSE
  /\ savedNote' = 0
  /\ generated' = ""
  /\ validatedText' = ""
  /\ targetLang' = ""
  /\ calls' = <<>>
  /\ IF t = "" \/ c = StringContent("")
     THEN /\ sent' = 1
          /\ resp' = [code |-> 400,
                      body |-> [error |-> "Missing \"type\" or \"content\" in the form data."]]
          /\ pc' = "done"
     ELSE IF t = "text" \/ (t = "audio" /\ c.kind # "file")
     THEN /\ sent' = 0
          /\ resp' = NoResponse
          /\ pc' = "detectLanguage"
     ELSE /\ sent' = 0
          /\ resp' = NoResponse
          /\ pc' = "generate"
  /\ UNCHANGED <<isDatabaseConnected, readyState, mongoUriSet, ens, store, deleted, callerPc,
                 callerResp, callerReq, callerDb>>
  /\ UNCHANGED <<pureVars, uploadVars>>

\* ReceiveGenerateNotes without the test for an uploaded file in the audio branch: the
\* file object is handed to detectLanguage and detectSubject like a transcript.
ReceiveGenerateNotes_FileDetected(t, c) ==
  /\ pc \in {"idle", "done"}
  /\ requests < MaxRequests
  /\ requests' = requests + 1
  /\ type' = t
  /\ content' = c
  /\ detectedLanguage' = "unknown"
  /\ detectedSubject' = "General"
  /\ generatedNotes' = ""
  /\ dbConnected' = FALSE
  /\ savedNote' = 0
  /\ generated' = ""
  /\ validatedText' = ""
  /\ targetLang' = ""
  /\ calls' = <<>>
  /\ IF t = "" \/ c = StringContent("")
     THEN /\ sent' = 1
          /\ resp' = [code |-> 400,
                      body |-> [error |-> "Missing \"type\" or \"content\" in the form data."]]
          /\ pc' = "done"
     ELSE IF t \in {"text", "audio"}
     THEN /\ sent' = 0
          /\ resp' = NoResponse
          /\ pc' = "detectLanguage"
     ELSE /\ sent' = 1
          /\ resp' = [code |-> 400,
                      body |-> [error |-> "Invalid input type. Must be \"text\" or \"audio\"."]]
          /\ pc' = "done"
  /\ UNCHANGED <<isDatabaseConnected, readyState, mongoUriSet, ens, store, deleted, callerPc,
                 callerResp, callerReq, callerDb>>
  /\ UNCHANGED <<pureVars, uploadVars>>

\* The request arrives: the check of type and content, the dispatch on type, and the
\* first call of the branch taken.
ReceiveGenerateNotes(t, c) ==
  /\ pc \in {"idle", "done"}
  /\ requests < MaxRequests
  /\ requests' = requests + 1
  /\ type' = t
  /\ content' = c
  /\ detectedLanguage' = "unknown"
  /\ detectedSubject' = "General"
  /\ generatedNotes' = ""
  /\ dbConnected' = FALSE
  /\ savedNote' = 0
  /\ generated' = ""
  /\ validatedText' = ""
  /\ targetLang' = ""
  /\ calls' = <<>>
  /\ IF t = "" \/ c = StringContent("")
     THEN /\ sent' = 1
          /\ resp' = [code |-> 400,
                      body |-> [error |-> "Missing \"type\" or \"content\" in the form data."]]
          /\ pc' = "done"
     ELSE IF t = "text" \/ (t = "audio" /\ c.kind # "file")
     THEN /\ sent' = 0
          /\ resp' = NoResponse
          /\ pc' = "detectLanguage"
     ELSE IF t = "audio"
     THEN /\ sent' = 0
          /\ resp' = NoResponse
          /\ pc' = "generate"
     ELSE /\ sent' = 1
          /\ resp' = [code |-> 400,
                      body |-> [error |-> "Invalid input type. Must be \"text\" or \"audio\"."]]
          /\ pc' = "done"
  /\ UNCHANGED <<isDatabaseConnected, readyState, mongoUriSet, ens, store, deleted, callerPc,
                 callerResp, callerReq, callerDb>>
  /\ UNCHANGED <<pureVars, uploadVars>>

\* detectLanguage(content) returns; detectSubject(content) is called.
DetectLanguageDone(r) ==
  /\ pc = "detectLanguage"
  /\ detectedLanguage' = detectLanguage(content, r)
  /\ calls' = Append(calls, Step("detectLanguage", content.kind = "string" /\ r.ok))
  /\ pc' = "detectSubject"
  /\ UNCHANGED <<isDatabaseConnected, readyState, mongoUriSet, ens, store, deleted, requests, type,
                 content, detectedSubject, generatedNotes, dbConnected, savedNote, generated,
                 validatedText, targetLang, resp, sent, callerPc, callerResp, callerReq, callerDb>>
  /\ UNCHANGED <<pureVars, uploadVars>>

\* detectSubject(content) returns; a typed text whose language looks suspicious has its
\* language detected once more, otherwise the generation call is made.
DetectSubjectDone(r) ==
  /\ pc = "detectSubject"
  /\ detectedSubject' = detectSubject(content, r)
  /\ calls' = Append(calls, Step("detectSubject", scoresReached(content, r)))
  /\ pc' = IF type = "text" /\ retryLanguage(detectedLanguage)
           THEN "retryLanguage" ELSE "generate"
  /\ UNCHANGED <<isDatabaseConnected, readyState, mongoUriSet, ens, store, deleted, requests, type,
                 content, detectedLanguage, generatedNotes, dbConnected, savedNote, generated,
                 validatedText, targetLang, resp, sent, callerPc, callerResp, callerReq, callerDb>>
  /\ UNCHANGED <<pureVars, uploadVars>>

\* RetryLanguageDone retrying for as long as the result looks suspicious (while for if).
RetryLanguageDone_Again(r) ==
  /\ pc = "retryLanguage"
  /\ detectedLanguage' = detectLanguage(content, r)
  /\ calls' = Append(calls, Step("detectLanguage", content.kind = "string" /\ r.ok))
  /\ pc' = IF retryLanguage(detectLanguage(content, r)) THEN "retryLanguage" ELSE "generate"
  /\ UNCHANGED <<isDatabaseConnected, readyState, mongoUriSet, ens, store, deleted, requests, type,
                 content, detectedSubject, generatedNotes, dbConnected, savedNote, generated,
                 validatedText, targetLang, resp, sent, callerPc, callerResp, callerReq, callerDb>>
  /\ UNCHANGED <<pureVars, uploadVars>>

\* The second detectLanguage(content) returns.
RetryLanguageDone(r) ==
  /\ pc = "retryLanguage"
  /\ detectedLanguage' = detectLanguage(content, r)
  /\ calls' = Append(calls, Step("detectLanguage", content.kind = "string" /\ r.ok))
  /\ pc' = "generate"
  /\ UNCHANGED <<isDatabaseConnected, readyState, mongoUriSet, ens, store, deleted, requests, type,
                 content, detectedSubject, generatedNotes, dbConnected, savedNote, generated,
                 validatedText, targetLang, resp, sent, callerPc, callerResp, callerReq, callerDb>>
  /\ UNCHANGED <<pureVars, uploadVars>>

\* The generation call returns: a rejection (or a throwing text()) reaches the outer
\* catch block, otherwise the language-validation call is made.
GenerateDone(r) ==
  /\ pc = "generate"
  /\ calls' = Append(calls, Step("generate", r.ok))
  /\ IF r.ok
     THEN /\ generatedNotes' = r.text
          /\ generated' = r.text
          /\ targetLang' = targetLanguage(detectedLanguage)
          /\ sent' = sent
          /\ resp' = resp
          /\ pc' = "validate"
     ELSE /\ generatedNotes' = generatedNotes
          /\ UNCHANGED <<generated, targetLang>>
          /\ sent' = sent + 1
          /\ resp' = [code |-> 500,
                      body |-> [error |-> "Failed to generate notes from AI.",
                                details |-> "generation failed"]]
          /\ pc' = "done"
  /\ UNCHANGED <<isDatabaseConnected, readyState, mongoUriSet, ens, store, deleted, requests, type,
                 content, detectedLanguage, detectedSubject, dbConnected, savedNote,
                 validatedText, callerPc, callerResp, callerReq, callerDb>>
  /\ UNCHANGED <<pureVars, uploadVars>>

\* The validation call returns: the notes are replaced or kept, the language becomes the
\* target language, the subject is re-checked, and ensureDBConnection is called.
ValidateDone(r) ==
  /\ pc = "validate"
  /\ generatedNotes' = validatedNotes(generatedNotes, r)
  /\ validatedText' = r.text
  /\ detectedLanguage' = targetLang
  /\ detectedSubject' = overrideSubject(validatedNotes(generatedNotes, r), content, detectedSubject)
  /\ calls' = calls \o <<Step("validate", r.ok), Step("postDetectSubject", TRUE)>>
  /\ pc' = "ensureDB"
  /\ CallEnsure(0)
  /\ UNCHANGED <<mongoUriSet, store, deleted, requests, type, content, dbConnected,
                 savedNote, generated, targetLang, resp, sent, callerPc, callerResp, callerReq,
                 callerDb>>
  /\ UNCHANGED <<pureVars, uploadVars>>

\* EnsureReturned answering 503 when the database is not connected, as the
\* /api/notes middleware does.
EnsureReturned_Unavailable ==
  /\ pc = "ensureDB"
  /\ ens[0].pc = "returned"
  /\ ens' = [ens EXCEPT ![0] = NoCall]
  /\ dbConnected' = ens[0].val
  /\ calls' = Append(calls, Step("ensureDBConnection", ens[0].val))
  /\ IF ens[0].val
     THEN /\ pc' = "saveNotes"
          /\ sent' = sent
          /\ resp' = resp
     ELSE /\ pc' = "done"
          /\ sent' = sent + 1
          /\ resp' = [code |-> 503,
                      body |-> [status |-> "error",
                                message |-> "Database not connected."]]
  /\ UNCHANGED <<isDatabaseConnected, readyState, mongoUriSet, store, deleted, requests, type, content,
                 detectedLanguage, detectedSubject, generatedNotes, savedNote, generated,
                 validatedText, targetLang, callerPc, callerResp, callerReq, callerDb>>
  /\ UNCHANGED <<pureVars, uploadVars>>

\* EnsureReturned without the `else`: after the answer for a database that is not
\* connected, the handler goes on to the save and its responses.
EnsureReturned_FallsThrough ==
  /\ pc = "ensureDB"
  /\ ens[0].pc = "returned"
  /\ ens' = [ens EXCEPT ![0] = NoCall]
  /\ dbConnected' = ens[0].val
  /\ calls' = Append(calls, Step("ensureDBConnection", ens[0].val))
  /\ pc' = "saveNotes"
  /\ IF ens[0].val
     THEN /\ sent' = sent
          /\ resp' = resp
     ELSE /\ sent' = sent + 1
          /\ resp' = [code |-> 200,
                      body |-> successBody @@
                               [note_id |-> 0,
                                database_status |-> "Database not connected - notes not saved"]]
  /\ UNCHANGED <<isDatabaseConnected, readyState, mongoUriSet, store, deleted, requests, type, content,
                 detectedLanguage, detectedSubject, generatedNotes, savedNote, generated,
                 validatedText, targetLang, callerPc, callerResp, callerReq, callerDb>>
  /\ UNCHANGED <<pureVars, uploadVars>>

\* ensureDBConnection has returned to the handler: saveNotes is called, or the notes are
\* returned unsaved.
EnsureReturned ==
  /\ pc = "ensureDB"
  /\ ens[0].pc = "returned"
  /\ ens' = [ens EXCEPT ![0] = NoCall]
  /\ dbConnected' = ens[0].val
  /\ calls' = Append(calls, Step("ensureDBConnection", ens[0].val))
  /\ IF ens[0].val
     THEN /\ pc' = "saveNotes"
          /\ sent' = sent
          /\ resp' = resp
     ELSE /\ pc' = "done"
          /\ sent' = sent + 1
          /\ resp' = [code |-> 200,
                      body |-> successBody @@
                               [note_id |-> 0,
                                database_status |-> "Database not connected - notes not saved"]]
  /\ UNCHANGED <<isDatabaseConnected, readyState, mongoUriSet, store, deleted, requests, type, content,
                 detectedLanguage, detectedSubject, generatedNotes, savedNote, generated,
                 validatedText, targetLang, callerPc, callerResp, callerReq, callerDb>>
  /\ UNCHANGED <<pureVars, uploadVars>>

\* SaveNotesDone without the inner try/catch: a throwing saveNotes reaches the outer
\* catch block.
SaveNotesDone_Uncaught(ok) ==
  /\ pc = "saveNotes"
  /\ calls' = Append(calls, Step("saveNotes", ok /\ canSave(noteDataOf)))
  /\ pc' = "done"
  /\ savedNote' = IF ok /\ canSave(noteDataOf) THEN newId ELSE 0
  /\ IF ok /\ canSave(noteDataOf)
     THEN /\ deleted' = deleted
          /\ store' = Append(store, newNote(newId, noteDataOf))
          /\ sent' = sent + 1
          /\ resp' = [code |-> 200,
                      body |-> successBody @@ [note_id |-> newId]]
     ELSE /\ deleted' = deleted
          /\ store' = store
          /\ sent' = sent + 1
          /\ resp' = [code |-> 500,
                      body |-> [error |-> "Failed to generate notes from AI.",
                                details |-> "save failed"]]
  /\ UNCHANGED <<isDatabaseConnected, readyState, mongoUriSet, ens, requests, type, content,
                 detectedLanguage, detectedSubject, generatedNotes, dbConnected, generated,
                 validatedText, targetLang, callerPc, callerResp, callerReq, callerDb>>
  /\ UNCHANGED <<pureVars, uploadVars>>

\* SaveNotesDone with a save that is repeated after it went through: two documents are
\* inserted for the request.
SaveNotesDone_Twice(ok) ==
  /\ pc = "saveNotes"
  /\ calls' = Append(calls, Step("saveNotes", ok /\ canSave(noteDataOf)))
  /\ pc' = "done"
  /\ savedNote' = IF ok /\ canSave(noteDataOf) THEN newId ELSE 0
  /\ deleted' = deleted
  /\ sent' = sent + 1
  /\ IF ok /\ canSave(noteDataOf)
     THEN /\ store' = store \o <<newNote(newId, noteDataOf), newNote(newId, noteDataOf)>>
          /\ resp' = [code |-> 200,
                      body |-> successBody @@ [note_id |-> newId]]
     ELSE /\ store' = store
          /\ resp' = [code |-> 200,
                      body |-> successBody @@
                               [note_id |-> 0,
                                save_error |-> "Notes generated but failed to save to database"]]
  /\ UNCHANGED <<isDatabaseConnected, readyState, mongoUriSet, ens, requests, type, content,
                 detectedLanguage, detectedSubject, generatedNotes, dbConnected, generated,
                 validatedText, targetLang, callerPc, callerResp, callerReq, callerDb>>
  /\ UNCHANGED <<pureVars, uploadVars>>

\* saveNotes(noteData) returns the saved document, or throws.
SaveNotesDone(ok) ==
  /\ pc = "saveNotes"
  /\ calls' = Append(calls, Step("saveNotes", ok /\ canSave(noteDataOf)))
  /\ pc' = "done"
  /\ savedNote' = IF ok /\ canSave(noteDataOf) THEN newId ELSE 0
  /\ IF ok /\ canSave(noteDataOf)
     THEN /\ deleted' = deleted
          /\ store' = Append(store, newNote(newId, noteDataOf))
          /\ sent' = sent + 1
          /\ resp' = [code |-> 200,
                      body |-> successBody @@ [note_id |-> newId]]
     ELSE /\ deleted' = deleted
          /\ store' = store
          /\ sent' = sent + 1
          /\ resp' = [code |-> 200,
                      body |-> successBody @@
                               [note_id |-> 0,
                                save_error |-> "Notes generated but failed to save to database"]]
  /\ UNCHANGED <<isDatabaseConnected, readyState, mongoUriSet, ens, requests, type, content,
                 detectedLanguage, detectedSubject, generatedNotes, dbConnected, generated,
                 validatedText, targetLang, callerPc, callerResp, callerReq, callerDb>>
  /\ UNCHANGED <<pureVars, uploadVars>>

Next ==
  \/ \E t \in RequestTypes, c \in RequestContents : ReceiveGenerateNotes(t, c)
  \/ \E r \in LanguageResponses : DetectLanguageDone(r)
  \/ \E r \in SubjectResponses : DetectSubjectDone(r)
  \/ \E r \in LanguageResponses : RetryLanguageDone(r)
  \/ \E r \in GenerationResponses : GenerateDone(r)
  \/ \E r \in ValidationResponses : ValidateDone(r)
  \/ EnsureReturned
  \/ \E ok \in BOOLEAN : SaveNotesDone(ok)
  \/ \E ok \in BOOLEAN : MongooseSettled(ok)
  \/ MongooseDisconnected
  \/ \E c \in Callers : DbStatusRequest(c)
  \/ \E c \in Callers : DbStatusRespond(c)
  \/ \E c \in Callers, route \in NotesRoutes, id \in NoteIds : NotesRequest(c, route, id)
  \/ \E c \in Callers : NotesMiddlewareDone(c)
  \/ \E c \in Callers, ok \in BOOLEAN : NotesHandlerDone(c, ok)

Spec == Init /\ [][Next]_vars

\* A step that ends an await of the /generate-notes handler: an external call returns or
\* throws, or the connection attempt the handler waits on is settled.
HandlerStep ==
  \/ \E r \in LanguageResponses : DetectLanguageDone(r)
  \/ \E r \in SubjectResponses : DetectSubjectDone(r)
  \/ \E r \in LanguageResponses : RetryLanguageDone(r)
  \/ \E r \in GenerationResponses : GenerateDone(r)
  \/ \E r \in ValidationResponses : ValidateDone(r)
  \/ EnsureReturned
  \/ \E ok \in BOOLEAN : SaveNotesDone(ok)
  \/ \E ok \in BOOLEAN : MongooseSettled(ok)

\* The server when every external call eventually returns or throws.
SpecLive == Spec /\ WF_vars(HandlerStep)

\* ------------------------------------------------------------------------
\* The /api/notes routes over a collection that already holds notes
\* ------------------------------------------------------------------------

\* Notes saved before the process started.
StoredBefore ==
  <<[_id |-> 101, inputType |-> "text", generatedNotes |-> "Cells divide by mitosis"],
    [_id |-> 102, inputType |-> "audio", generatedNotes |-> "The team won the match"]>>

InitNotes ==
  /\ mongoUriSet \in BOOLEAN
  /\ isDatabaseConnected \in (IF mongoUriSet THEN BOOLEAN ELSE {FALSE})
  /\ readyState = IF isDatabaseConnected THEN 1 ELSE 0
  /\ \E n \in 0..Len(StoredBefore) : ServerStart(SubSeq(StoredBefore, 1, n))
  /\ PureIdle
  /\ UploadIdle

NextNotes ==
  \/ \E ok \in BOOLEAN : MongooseSettled(ok)
  \/ MongooseDisconnected
  \/ \E c \in Callers, route \in NotesRoutes, id \in NoteIds : NotesRequest(c, route, id)
  \/ \E c \in Callers : NotesMiddlewareDone(c)
  \/ \E c \in Callers, ok \in BOOLEAN : NotesHandlerDone(c, ok)

SpecNotes == InitNotes /\ [][NextNotes]_vars

\* ------------------------------------------------------------------------
\* The two subject functions applied to enumerated arguments
\* ------------------------------------------------------------------------

\* Outcomes of detectSubject's model call.
PureResponses ==
  { Rejected,
    Resolved(""),
    Resolved("Programming"),
    Resolved("Sports"),
    Resolved(" \"Biology\".\nIt is about cells"),
    Resolved("computer science and maths"),
    Resolved("This looks like coding"),
    Resolved("GENERAL"),
    Resolved("physics or math"),
    Resolved("Economics"),
    Resolved("Astronomy") }

\* Generated notes handed to postDetectSubject.
PureGenerated ==
  { "",
    "Organic Chemistry: reactions of esters",
    "Physics and chemistry of the atom",
    "In general the team won the match",
    "The player scored a goal for the team",
    "A melody needs rhythm",
    "The coach set the pitch of the song with a player",
    "Integral and derivative in calculus",
    "The melody of the code" }

\* Original contents handed to postDetectSubject.
PureOriginals ==
  { StringContent(""),
    StringContent("notes on respiration"),
    StringContent("History of the empire"),
    FileContent("lecture.mp3", "audio/mpeg") }

\* Texts handed to formatForSubjectDetection: lines that repeat, a heading, a formula.
FormatTexts ==
  { "Cells\nCells",
    "# Forces\nF = m a\nN is the unit of force",
    "\r\n \t\n" }

InitPure ==
  /\ mongoUriSet = FALSE
  /\ isDatabaseConnected = FALSE
  /\ readyState = 0
  /\ ServerIdle
  /\ UploadIdle
  /\ called = FALSE
  /\ ret = ""
  /\ retScores = <<>>
  /\ retMapped = NoMapping
  /\ retTop = ""
  /\ retThrew = FALSE
  /\ \/ /\ fn = "detectSubject"
        /\ argContent \in {StringContent(t) : t \in PureTexts} \cup {FileContent("lecture.mp3", "audio/mpeg")}
        /\ argResponse \in PureResponses
        /\ argGenerated = ""
        /\ argCurrent = "General"
     \/ /\ fn = "formatForSubjectDetection"
        /\ argContent \in {StringContent(t) : t \in PureTexts \cup FormatTexts}
        /\ argResponse = Rejected
        /\ argGenerated = ""
        /\ argCurrent = "General"
     \/ /\ fn = "postDetectSubject"
        /\ argContent \in PureOriginals
        /\ argResponse = Rejected
        /\ argGenerated \in PureGenerated
        /\ argCurrent \in AllowedSet

CallDetectSubject ==
  /\ fn = "detectSubject"
  /\ ~called
  /\ called' = TRUE
  /\ ret' = detectSubject(argContent, argResponse)
  /\ retThrew' = formatForSubjectDetection(argContent).threw
  /\ retScores' = IF scoresReached(argContent, argResponse)
                  THEN heuristicScores[argContent.text]
                  ELSE <<>>
  /\ retTop' = IF scoresReached(argContent, argResponse)
               THEN sortByScoreDesc(heuristicScores[argContent.text])[1][1]
               ELSE ""
  /\ retMapped' = IF scoresReached(argContent, argResponse)
                  THEN mapResponse(normalizeDetected(trim(argResponse.text)))
                  ELSE NoMapping
  /\ UNCHANGED <<fn, argContent, argResponse, argGenerated, argCurrent>>
  /\ UNCHANGED <<serverVars, uploadVars>>

CallPostDetectSubject ==
  /\ fn = "postDetectSubject"
  /\ ~called
  /\ called' = TRUE
  /\ ret' = postDetectSubject(argGenerated, argContent, argCurrent)
  /\ retScores' = LET text == getTextForAnalysis(argGenerated, argContent)
                  IN IF trim(text) # "" /\ postMention(text) = NoMapping
                     THEN scoreEntries(text, smallKeywordMap)
                     ELSE <<>>
  /\ retTop' = LET text == getTextForAnalysis(argGenerated, argContent)
               IN IF trim(text) # "" /\ postMention(text) = NoMapping
                  THEN sortByScoreDesc(scoreEntries(text, smallKeywordMap))[1][1]
                  ELSE ""
  /\ UNCHANGED <<fn, argContent, argResponse, argGenerated, argCurrent, retMapped, retThrew>>
  /\ UNCHANGED <<serverVars, uploadVars>>

\* A call of formatForSubjectDetection on its own.
CallFormatForSubjectDetection ==
  /\ fn = "formatForSubjectDetection"
  /\ ~called
  /\ called' = TRUE
  /\ ret' = formatForSubjectDetection(argContent).value
  /\ retThrew' = formatForSubjectDetection(argContent).threw
  /\ UNCHANGED <<fn, argContent, argResponse, argGenerated, argCurrent, retScores, retMapped,
                 retTop>>
  /\ UNCHANGED <<serverVars, uploadVars>>

NextPure == CallDetectSubject \/ CallPostDetectSubject \/ CallFormatForSubjectDetection

SpecPure == InitPure /\ [][NextPure]_vars

\* ------------------------------------------------------------------------
\* The upload route: receiveNote, transcribeAndSave, convertToPCMwav
\* ------------------------------------------------------------------------

\* Uploads received in one behaviour.
MaxUploads == 2

\* path.extname: from the last "." of the last path segment to the end; "" when the
\* segment has none, or has its only one in first position.
extname(p) ==
  LET slashes == {i \in 1..Len(p) : SubSeq(p, i, i) = "/"}
      start == IF slashes = {} THEN 1
               ELSE (CHOOSE i \in slashes : \A j \in slashes : j <= i) + 1
      dots == {i \in (start + 1)..Len(p) : SubSeq(p, i, i) = "."}
  IN IF dots = {} THEN ""
     ELSE SubSeq(p, CHOOSE i \in dots : \A j \in dots : j <= i, Len(p))

\* s.replace(pattern, ""): s without the first occurrence of the string pattern.
removeFirst(s, pattern) ==
  LET at == {i \in 1..(Len(s) - Len(pattern) + 1) : SubSeq(s, i, i + Len(pattern) - 1) = pattern}
  IN IF pattern = "" \/ at = {} THEN s
     ELSE LET i == CHOOSE k \in at : \A j \in at : k <= j
          IN SubSeq(s, 1, i - 1) \o SubSeq(s, i + Len(pattern), Len(s))

\* convertToPCMwav's outputPath.
outputPath(inputPath) == removeFirst(inputPath, extname(inputPath)) \o "_pcm.wav"

\* transcribeAndSave's `supported`.
supported == {".wav", ".mp3", ".flac", ".ogg", ".aac", ".aiff"}

\* needsConversion with the extension compared as written, without toLowerCase.
needsConversion_CaseSensitive(originalFilePath) ==
  extname(originalFilePath) \notin supported

\* `!supported.includes(ext)`, ext being the lower-cased extension of the stored path.
needsConversion(originalFilePath) ==
  toLowerCase(extname(originalFilePath)) \notin supported

\* req.file of the uploads: stored under the original extension, in either case, or under
\* a generated name with no extension.
UploadedFiles ==
  { File("uploads/a1.mp3", "lecture.mp3", "audio/mpeg"),
    File("uploads/a2.MP3", "LECTURE.MP3", "audio/mpeg"),
    File("uploads/a3.m4a", "memo.m4a", "audio/mp4"),
    File("uploads/a4", "talk.wav", "audio/wav"),
    File("uploads/a5.webm", "rec.webm", "audio/webm") }

\* What generateContent returns, as transcribeWithGemini reads it.
TranscriptionResponses == {Rejected, Resolved(""), Resolved("Agenda for Monday")}

\* How the synchronous file calls after the transcription go: all through, a
\* writeFileSync throws, or the first unlinkSync throws.
DiskOutcomes == {"ok", "writeFileSync throws", "unlinkSync throws"}

\* receiveNote, up to the first await of transcribeAndSave. One transcription is in
\* progress at a time; the stored name of an upload is not that of a file still on disk.
ReceiveNote(f) ==
  /\ tPc \in {"idle", "returned", "threw"}
  /\ uploads < MaxUploads
  /\ uploads' = uploads + 1
  /\ IF f = NoFile
     THEN /\ tResp' = [code |-> 400, body |-> [error |-> "No audio uploaded"]]
          /\ tPc' = "idle"
          /\ UNCHANGED <<tFile, disk, processingPath, finalMimeType, sentAudio, written,
                         tSteps>>
     ELSE /\ tFile' = f
          /\ f.path \notin disk
          /\ outputPath(f.path) \notin disk
          /\ disk' = disk \cup {f.path}
          /\ tResp' = [code |-> 200, body |-> [message |-> "File received"]]
          /\ processingPath' = f.path
          /\ finalMimeType' = f.mimetype
          /\ sentAudio' = NoAudio
          /\ written' = FALSE
          /\ tSteps' = <<>>
          /\ tPc' = IF ~googleKey THEN "returned"
                    ELSE IF needsConversion(f.path) THEN "converting"
                    ELSE "transcribing"
  /\ UNCHANGED googleKey
  /\ UNCHANGED <<serverVars, pureVars>>

\* `await convertToPCMwav(originalFilePath)` settles: ffmpeg ended, or failed and the
\* rejection leaves transcribeAndSave.
ConvertDone(ok) ==
  /\ tPc = "converting"
  /\ tSteps' = Append(tSteps, Step("convertToPCMwav", ok))
  /\ IF ok
     THEN /\ disk' = disk \cup {outputPath(tFile.path)}
          /\ processingPath' = outputPath(tFile.path)
          /\ finalMimeType' = "audio/wav"
          /\ tPc' = "transcribing"
     ELSE /\ tPc' = "threw"
          /\ UNCHANGED <<disk, processingPath, finalMimeType>>
  /\ UNCHANGED <<googleKey, uploads, tFile, tResp, sentAudio, written>>
  /\ UNCHANGED <<serverVars, pureVars>>

\* transcribeAndSave from `await transcribeWithGemini(...)` to its end. `read` is whether
\* readFile went through, so that generateContent was called; r is what that call gave.
TranscribeDone(read, r, io) ==
  /\ tPc = "transcribing"
  /\ sentAudio' = IF read THEN [path |-> processingPath, mimeType |-> finalMimeType]
                  ELSE sentAudio
  /\ LET text == IF read /\ r.ok THEN r.text ELSE ""
         after == IF read THEN Append(tSteps, Step("generateContent", r.ok)) ELSE tSteps
     IN IF text = ""
        THEN /\ tPc' = "returned"
             /\ tSteps' = after
             /\ UNCHANGED <<disk, written>>
        ELSE IF io = "writeFileSync throws"
        THEN /\ tPc' = "threw"
             /\ tSteps' = Append(after, Step("writeFileSync", FALSE))
             /\ UNCHANGED <<disk, written>>
        ELSE /\ tPc' = "returned"
             /\ written' = TRUE
             /\ tSteps' = Append(Append(after, Step("writeFileSync", TRUE)),
                                 Step("unlinkSync", io = "ok"))
             /\ disk' = IF io = "ok" THEN disk \ {processingPath, tFile.path} ELSE disk
  /\ UNCHANGED <<googleKey, uploads, tFile, tResp, processingPath, finalMimeType>>
  /\ UNCHANGED <<serverVars, pureVars>>

InitUpload ==
  /\ mongoUriSet = FALSE
  /\ isDatabaseConnected = FALSE
  /\ readyState = 0
  /\ ServerIdle
  /\ PureIdle
  /\ \E key \in BOOLEAN : UploadStart(key)

NextUpload ==
  \/ \E f \in UploadedFiles \cup {NoFile} : ReceiveNote(f)
  \/ \E ok \in BOOLEAN : ConvertDone(ok)
  \/ \E read \in BOOLEAN, r \in TranscriptionResponses, io \in DiskOutcomes :
       TranscribeDone(read, r, io)

SpecUpload == InitUpload /\ [][NextUpload]_vars

\* ------------------------------------------------------------------------
\* Properties of detectSubject (checked under SpecPure)
\* ------------------------------------------------------------------------

\* The heuristic's top entry: the first entry, in lexicon order, of maximal score.
TopEntry(entries) ==
  entries[CHOOSE i \in DOMAIN entries :
            \A j \in DOMAIN entries :
              /\ entries[j][2] <= entries[i][2]
              /\ (j < i => entries[j][2] < entries[i][2])]

\* detectSubject has returned from a call on a string for which the model, when asked,
\* answers (argResponse is its answer).
DetectReturned == called /\ fn = "detectSubject" /\ argResponse.ok /\ argContent.kind = "string"
ArgMapped == mapResponse(normalizeDetected(trim(argResponse.text)))

\* C1: when the model response maps to a label M, detectSubject returns the heuristic's
\* top label H exactly when H differs from M, H's score is at least 2 and H's score is
\* strictly greater than M's score; in every other case (equal scores included) it
\* returns M.
C1_OverrideRule ==
  (DetectReturned /\ ArgMapped # NoMapping) =>
     LET scores == heuristicScores[argContent.text]
         H == TopEntry(scores)
         M == ArgMapped
     IN ret = IF H[1] # M /\ H[2] >= 2 /\ H[2] > scoreOf(scores, M) THEN H[1] ELSE M

\* A text String.prototype.trim leaves nothing of.
Blank(t) == trim(t) = ""

\* C3: when the model response maps to no label, detectSubject returns the heuristic's
\* top label if its score is greater than 0 and "General" otherwise; for an empty or
\* whitespace-only text every score is 0 and the result is "General".
C3_NoMappingFallback ==
  (DetectReturned /\ ArgMapped = NoMapping) =>
     LET H == TopEntry(heuristicScores[argContent.text])
     IN /\ ret = IF H[2] > 0 THEN H[1] ELSE "General"
        /\ Blank(argContent.text) =>
             /\ \A i \in DOMAIN retScores : retScores[i][2] = 0
             /\ ret = "General"

\* The terms of a lexicon entry, as a set.
LexiconTerms(keywords) == {keywords[i] : i \in DOMAIN keywords}

\* C4: for every text and every subject, the heuristic score equals the number of that
\* subject's lexicon terms (each term counted once) that occur in the text as
\* case-insensitive substrings.
C4_ScoreCountsTermsOnce ==
  DetectReturned =>
     retScores =
        [i \in DOMAIN keywordMap |->
           <<keywordMap[i][1],
             Cardinality({k \in LexiconTerms(keywordMap[i][2]) :
                            includes(toLowerCase(argContent.text), toLowerCase(k))})>>]

\* detectSubject has returned from a call on a string whose model call was rejected.
DetectThrew == called /\ fn = "detectSubject" /\ ~argResponse.ok /\ argContent.kind = "string"

\* C11: when the subject-classification call throws, the no-mapping rule is applied:
\* detectSubject returns the heuristic's top label if its score on the text is greater
\* than 0, and "General" only if every score is 0.
C11_ThrowAppliesNoMappingRule ==
  DetectThrew =>
     LET H == TopEntry(heuristicScores[argContent.text])
     IN ret = IF H[2] > 0 THEN H[1] ELSE "General"

\* The normalized model response, lower-cased.
ArgCleanedLower == toLowerCase(normalizeDetected(trim(argResponse.text)))

\* The allowed labels equal to the response ignoring case, the allowed labels contained
\* in it, and the synonym keys contained in it (as positions in their tables).
EqualLabels == {i \in DOMAIN allowedSubjects : toLowerCase(allowedSubjects[i]) = ArgCleanedLower}
ContainedLabels ==
  {i \in DOMAIN allowedSubjects : includes(ArgCleanedLower, toLowerCase(allowedSubjects[i]))}
ContainedKeys == {i \in DOMAIN synonyms : includes(ArgCleanedLower, synonyms[i][1])}

\* C15: the label mapped from a normalized model response is (1) the allowed label equal
\* to the response ignoring case, else (2) the first allowed label contained in the
\* response, else (3) the value of the first synonym key contained in the response, else
\* no mapping; it is always a member of the allowed set or no mapping.
C15_MappingOrder ==
  (DetectReturned /\ ~retThrew) =>
     /\ retMapped \in AllowedSet \cup {NoMapping}
     /\ EqualLabels # {} => retMapped \in {allowedSubjects[i] : i \in EqualLabels}
     /\ (EqualLabels = {} /\ ContainedLabels # {}) =>
           retMapped = allowedSubjects[firstIndex(ContainedLabels)]
     /\ (EqualLabels = {} /\ ContainedLabels = {} /\ ContainedKeys # {}) =>
           retMapped = synonyms[firstIndex(ContainedKeys)][2]
     /\ (EqualLabels = {} /\ ContainedLabels = {} /\ ContainedKeys = {}) =>
           retMapped = NoMapping

\* C15 witness: a response containing a label and, earlier in the synonym table, a
\* synonym of another label was mapped to the contained label.
C15_Witness ==
  /\ DetectReturned
  /\ ~retThrew
  /\ EqualLabels = {}
  /\ ContainedLabels # {}
  /\ ContainedKeys # {}
  /\ synonyms[firstIndex(ContainedKeys)][2] # allowedSubjects[firstIndex(ContainedLabels)]
  /\ retMapped = allowedSubjects[firstIndex(ContainedLabels)]

\* The response names k: k is the response, or a space-delimited part of it.
Names(k) == includes(" " \o ArgCleanedLower \o " ", " " \o k \o " ")

\* C16: a model response that names neither a member of the allowed set nor a listed
\* synonym of one (a response naming an unrelated subject) is treated as no mapping.
C16_UnrelatedIsNoMapping ==
  (/\ DetectReturned
   /\ ~retThrew
   /\ \A i \in DOMAIN allowedSubjects : ~Names(toLowerCase(allowedSubjects[i]))
   /\ \A i \in DOMAIN synonyms : ~Names(synonyms[i][1])) =>
     retMapped = NoMapping

\* ------------------------------------------------------------------------
\* Properties of postDetectSubject (checked under SpecPure)
\* ------------------------------------------------------------------------

PostReturned == called /\ fn = "postDetectSubject"

\* The generated text and the original content (or file name), as the re-check reads them.
ArgCombined ==
  toLowerCase(argGenerated \o "\n" \o
              (IF argContent.kind = "string" THEN argContent.text ELSE argContent.originalname))

\* C5 (as claimed): whenever the generated text contains "chemistry" in any letter case,
\* postDetectSubject returns "Chemistry", whatever the prior subject and whatever else
\* the combined text contains.
C5_ChemistryMentionAlways ==
  (PostReturned /\ includes(toLowerCase(argGenerated), "chemistry")) => ret = "Chemistry"

\* C5 (amended): whenever the generated text contains "chemistry" in any letter case and
\* the combined generated+original text contains neither "mathematics" nor "physics"
\* (the labels listed before Chemistry), postDetectSubject returns "Chemistry", whatever
\* the prior subject.
C5_ChemistryMentionFirst ==
  (/\ PostReturned
   /\ includes(toLowerCase(argGenerated), "chemistry")
   /\ ~includes(ArgCombined, "mathematics")
   /\ ~includes(ArgCombined, "physics")) => ret = "Chemistry"

\* C5 witness: a capitalised mention of Chemistry replaced another subject.
C5_Witness ==
  /\ PostReturned
  /\ includes(toLowerCase(argGenerated), "chemistry")
  /\ ~includes(argGenerated, "chemistry")
  /\ argCurrent = "History"
  /\ ret = "Chemistry"

\* C6: for every current subject other than "General", postDetectSubject never returns
\* "General".
C6_NeverBackToGeneral ==
  (PostReturned /\ argCurrent # "General") => ret # "General"

\* The combined text mentions no allowed label and no synonym key.
NoMention ==
  /\ \A i \in DOMAIN allowedSubjects : ~includes(ArgCombined, toLowerCase(allowedSubjects[i]))
  /\ \A i \in DOMAIN postSynonyms : ~includes(ArgCombined, postSynonyms[i][1])

\* The greatest score among the entries other than the top one.
RunnerUpScore(entries) ==
  LET t == CHOOSE i \in DOMAIN entries : entries[i] = TopEntry(entries)
      rest == {entries[j][2] : j \in DOMAIN entries \ {t}}
  IN CHOOSE m \in rest : \A n \in rest : n <= m

\* C17: when the combined text mentions no allowed label and no synonym key,
\* postDetectSubject returns the top small-lexicon scorer if it has at least 3 hits and
\* leads the runner-up by at least 2; otherwise "Sports" if Sports scores at least 2;
\* otherwise the current subject.
C17_PostScoringRules ==
  (PostReturned /\ NoMention) =>
     IF Blank(ArgCombined) THEN ret = argCurrent
     ELSE LET top == TopEntry(retScores)
          IN ret = IF top[2] >= 3 /\ top[2] - RunnerUpScore(retScores) >= 2 THEN top[1]
                   ELSE IF scoreOf(retScores, "Sports") >= 2 THEN "Sports"
                   ELSE argCurrent

\* C17 witness: Sports led with 3 hits, but by 1 only, and was returned under its own
\* threshold in place of another subject.
C17_Witness ==
  /\ PostReturned /\ NoMention /\ ~Blank(ArgCombined)
  /\ TopEntry(retScores)[2] >= 3
  /\ TopEntry(retScores)[2] - RunnerUpScore(retScores) < 2
  /\ scoreOf(retScores, "Sports") >= 2
  /\ argCurrent = "Music"
  /\ ret = "Sports"

\* ------------------------------------------------------------------------
\* Properties of the server (checked under Spec)
\* ------------------------------------------------------------------------

\* C2: at every point of a generate-notes request, and in the response, the detected
\* subject is one of the fifteen allowed labels.
C2_SubjectClosed ==
  /\ detectedSubject \in AllowedSet
  /\ (resp.code = 200 => resp.body.detected_subject \in AllowedSet)

\* C2 witness: a response whose subject the pre-generation reconciler took from the
\* heuristic and the re-check then replaced.
C2_Witness ==
  /\ pc = "done"
  /\ resp.code = 200
  /\ Step("detectSubject", TRUE) \in {calls[i] : i \in DOMAIN calls}
  /\ resp.body.detected_subject \notin {"General", "Sports"}

\* Pending calls of mongoose.connect.
Connecting == {s \in Slots : ens[s].pc = "connecting"}

\* C7: under every interleaving of the requests that call ensureDBConnection, the
\* connect operation is initiated at most once while no connection exists: two calls of
\* mongoose.connect are never pending together.
C7_ConnectInitiatedOnce == Cardinality(Connecting) <= 1

\* The steps of the request in progress.
CallsMade == {calls[i] : i \in DOMAIN calls}

\* C8: whenever the generation call succeeded but the database is not connected or the
\* save throws, the response is HTTP 200 with status "success", the generated notes,
\* note_id null and an explicit not-saved indicator.
C8_PersistenceFailureKeepsSuccess ==
  (/\ pc = "done"
   /\ Step("generate", TRUE) \in CallsMade
   /\ \/ Step("ensureDBConnection", FALSE) \in CallsMade
      \/ Step("saveNotes", FALSE) \in CallsMade) =>
     /\ resp.code = 200
     /\ resp.body.status = "success"
     /\ resp.body.generated_notes = generatedNotes
     /\ resp.body.note_id = 0
     /\ \/ "database_status" \in DOMAIN resp.body
        \/ "save_error" \in DOMAIN resp.body

\* C8 witness: the save threw although the handler had been told the database is
\* connected, and the notes were returned.
C8_Witness ==
  /\ pc = "done"
  /\ Step("generate", TRUE) \in CallsMade
  /\ Step("ensureDBConnection", TRUE) \in CallsMade
  /\ Step("saveNotes", FALSE) \in CallsMade
  /\ resp.code = 200
  /\ "save_error" \in DOMAIN resp.body
  /\ resp.body.generated_notes # ""

\* C9: every note record persisted by a successful request carries the request's final
\* detected subject and language and the original-content reference, equal to the
\* values returned in the response.
C9_StoredRecordCarriesDetection ==
  (pc = "done" /\ findById(savedNote) # {}) =>
     LET doc == store[firstIndex(findById(savedNote))]
     IN /\ doc.inputType = resp.body.input_type
        /\ doc.generatedNotes = resp.body.generated_notes
        /\ "detectedSubject" \in DOMAIN doc
        /\ "detectedLanguage" \in DOMAIN doc
        /\ "originalContent" \in DOMAIN doc
        /\ doc.detectedSubject = resp.body.detected_subject
        /\ doc.detectedLanguage = resp.body.detected_language

\* C10: for a request with type "text" or "audio" and non-empty content, the response
\* is an error (HTTP 500) exactly when the generation call fails; no failure of
\* language detection, subject detection, language validation, database connection or
\* saving produces an error response.
C10_ErrorIffGenerationFails ==
  (pc = "done" /\ type \in {"text", "audio"} /\ content # StringContent("")) =>
     /\ resp.code \in {200, 500}
     /\ resp.code = 500 <=> Step("generate", FALSE) \in CallsMade
     /\ resp.code = 200 <=> ("status" \in DOMAIN resp.body /\ resp.body.status = "success")

\* C10 witness: language detection, subject detection, validation and the save all
\* failed, and the response is a success.
C10_Witness ==
  /\ pc = "done"
  /\ type = "text"
  /\ Step("detectLanguage", FALSE) \in CallsMade
  /\ Step("detectSubject", FALSE) \in CallsMade
  /\ Step("validate", FALSE) \in CallsMade
  /\ Step("saveNotes", FALSE) \in CallsMade
  /\ resp.code = 200
  /\ resp.body.status = "success"

\* The validation call threw, or returned empty or whitespace-only text.
ValidationFailed ==
  \/ Step("validate", FALSE) \in CallsMade
  \/ Step("validate", TRUE) \in CallsMade /\ Blank(validatedText)

\* C12: if the validation call throws or returns empty or whitespace-only text, the
\* notes kept, returned and persisted are exactly the output of the generation call, and
\* the request succeeds.
C12_ValidationAdvisory ==
  ValidationFailed =>
     /\ generatedNotes = generated
     /\ pc = "done" =>
          /\ resp.code = 200
          /\ resp.body.status = "success"
          /\ resp.body.generated_notes = generated
          /\ \A i \in findById(savedNote) : store[i].generatedNotes = generated

\* C12 witness: the validation call returned whitespace only, and the generation output
\* was returned and saved.
C12_Witness ==
  /\ pc = "done"
  /\ Step("validate", TRUE) \in CallsMade
  /\ validatedText # "" /\ Blank(validatedText)
  /\ generated # ""
  /\ resp.code = 200
  /\ resp.body.generated_notes = generated
  /\ \E i \in findById(savedNote) : store[i].generatedNotes = generated

\* The positions in calls of the language detections of the request.
LanguageCalls == {i \in DOMAIN calls : calls[i].call = "detectLanguage"}

\* The last language detection of the request threw.
LastDetectionThrew ==
  /\ LanguageCalls # {}
  /\ ~calls[CHOOSE i \in LanguageCalls : \A j \in LanguageCalls : j <= i].ok

\* C13: when language detection throws or yields "unknown" or an empty name, the
\* validation target language and the detected_language of the successful response are
\* "English", the request does not fail for it, and no successful response reports
\* "unknown".
C13_FailedDetectionGivesEnglish ==
  /\ (pc = "validate" /\ detectedLanguage \in {"unknown", ""}) => targetLang = "English"
  /\ (pc = "validate" /\ LastDetectionThrew) => targetLang = "English"
  /\ (pc = "done" /\ resp.code = 200) =>
        /\ resp.body.detected_language = targetLang
        /\ resp.body.detected_language \notin {"unknown", ""}
  /\ (pc = "done" /\ LastDetectionThrew /\ Step("generate", TRUE) \in CallsMade) =>
        /\ resp.code = 200
        /\ resp.body.detected_language = "English"

\* C13 witness: both language detections of a typed text threw and the response reports
\* English.
C13_Witness ==
  /\ pc = "done"
  /\ type = "text"
  /\ Cardinality(LanguageCalls) = 2
  /\ \A i \in LanguageCalls : ~calls[i].ok
  /\ targetLang = "English"
  /\ resp.code = 200
  /\ resp.body.detected_language = "English"

\* C14: whenever language detection runs on textual content (typed text or a supplied
\* transcript) it is invoked at most twice for the request, and the second invocation
\* is issued exactly when the first result is "unknown", contains "English" or
\* contains "##".
C14_RetryExactlyWhenSuspicious ==
  [][(pc = "detectSubject" /\ pc' # "detectSubject" /\ content.kind = "string") =>
       /\ (pc' = "retryLanguage") <=>
            \/ detectedLanguage = "unknown"
            \/ includes(detectedLanguage, "English")
            \/ includes(detectedLanguage, "##")
       /\ Cardinality({i \in DOMAIN calls' : calls'[i].call = "detectLanguage"}) <= 2]_vars

\* The steps of the request that have started: those completed, then the one awaited.
Started ==
  [i \in DOMAIN calls |-> calls[i].call] \o
    (IF pc \in {"detectLanguage", "retryLanguage"} THEN <<"detectLanguage">>
     ELSE IF pc \in {"detectSubject", "generate", "validate", "saveNotes"} THEN <<pc>>
     ELSE IF pc = "ensureDB" THEN <<"ensureDBConnection">>
     ELSE <<>>)

IsPrefix(a, b) == Len(a) <= Len(b) /\ SubSeq(b, 1, Len(a)) = a

\* The steps from the generation call on.
FromGeneration ==
  <<"generate", "validate", "postDetectSubject", "ensureDBConnection", "saveNotes">>

InvalidRequest ==
  /\ pc # "idle"
  /\ type \notin {"text", "audio"} \/ content = StringContent("")

\* C19: a request with missing type, missing content or a type other than "text" and
\* "audio" is answered with HTTP 400; no model call is made for it, no database
\* connection is attempted and no note is saved.
C19_InvalidRequestHasNoEffect ==
  InvalidRequest =>
     /\ pc = "done"
     /\ resp.code = 400
     /\ calls = <<>>
     /\ ens[0] = NoCall
     /\ savedNote = 0
     /\ generated = ""

\* C19 witness: an uploaded file sent with type "video" while the database is
\* configured but not connected.
C19_Witness ==
  /\ InvalidRequest
  /\ type = "video"
  /\ content.kind = "file"
  /\ mongoUriSet /\ ~isDatabaseConnected
  /\ resp.code = 400

\* The caller's request is to a /api/notes route.
NotesCaller(c) == callerReq[c].route \in NotesRoutes

ExcerptLines == IF ret = "" THEN <<>> ELSE splitLines(ret)

\* C23: formatForSubjectDetection returns an excerpt made of lines of the input: the
\* title line comes first, each of the first lines of the document is listed, and no
\* line is listed more than once.
C23_ExcerptListsLinesOnce ==
  (called /\ fn = "formatForSubjectDetection") =>
     LET lines == nonEmptyLines(argContent.text)
     IN /\ ~retThrew
        /\ \A i \in DOMAIN ExcerptLines : \E j \in DOMAIN lines : ExcerptLines[i] = lines[j]
        /\ \A j \in DOMAIN lines : j <= 60 => \E i \in DOMAIN ExcerptLines : ExcerptLines[i] = lines[j]
        /\ \A i, j \in DOMAIN ExcerptLines : i # j => ExcerptLines[i] # ExcerptLines[j]
        /\ lines # <<>> => ExcerptLines[1] = titleOf(lines)

\* C30: whenever detectSubject or postDetectSubject sorts its scores, the label it takes
\* as the top one is the first-declared subject among those of maximal score.
C30_TieGoesToFirstDeclared ==
  (called /\ fn \in {"detectSubject", "postDetectSubject"} /\ retScores # <<>>) =>
     retTop = TopEntry(retScores)[1]

\* C30 witness: postDetectSubject sorted scores in which two subjects share a maximal
\* score above 0, and took the one declared first.
C30_Witness ==
  /\ called /\ fn = "postDetectSubject" /\ retScores # <<>>
  /\ TopEntry(retScores)[2] > 0
  /\ Cardinality({i \in DOMAIN retScores : retScores[i][2] = TopEntry(retScores)[2]}) >= 2
  /\ retTop = TopEntry(retScores)[1]

\* ------------------------------------------------------------------------
\* Properties of getNoteById and deleteNote (checked under SpecNotes)
\* ------------------------------------------------------------------------

\* The handler of a get or delete request of caller c answers in this step.
HandlerAnswers(c) ==
  /\ callerReq[c].route \in {"get", "delete"}
  /\ callerPc[c] = "notesHandler"
  /\ callerPc'[c] = "idle"

\* C21 (as claimed): getNoteById and deleteNote respond 404 exactly when no note with the
\* requested identifier exists.
C21_NotFoundExactlyWhenAbsent ==
  [][\A c \in Callers :
       HandlerAnswers(c) =>
          (callerResp'[c].code = 404 <=> findById(callerReq[c].id) = {})]_vars

\* C21 (amended): a get or delete whose lookup does not throw is answered 404 with
\* status "error" exactly when no note has the identifier (one whose lookup throws is
\* answered 500 and changes nothing); otherwise get returns the note and delete removes
\* it, returns it and leaves the other notes; and a deleted identifier is never found
\* in the collection again.
C21_NotFoundWhenLookupFindsNone ==
  [][/\ \A c \in Callers :
          HandlerAnswers(c) =>
             LET id == callerReq[c].id
                 found == findById(id)
                 r == callerResp'[c]
             IN /\ r.code \in {200, 404, 500}
                /\ r.code = 404 => (found = {} /\ r.body.status = "error" /\ store' = store)
                /\ r.code = 500 => store' = store
                /\ (r.code = 200 /\ callerReq[c].route = "get") =>
                      (found # {} /\ r.body.note._id = id /\ store' = store)
                /\ (r.code = 200 /\ callerReq[c].route = "delete") =>
                      /\ found # {}
                      /\ r.body.deletedNote._id = id
                      /\ id \in deleted'
                      /\ {store'[i] : i \in DOMAIN store'} =
                            {store[i] : i \in DOMAIN store} \ {r.body.deletedNote}
     /\ \A id \in deleted' : \A i \in DOMAIN store' : store'[i]._id # id]_vars

\* C21 witness: a get or delete of an identifier deleted earlier was answered 404.
C21_Witness ==
  \E c \in Callers :
     /\ callerReq[c].route \in {"get", "delete"}
     /\ callerReq[c].id \in deleted
     /\ callerResp[c].code = 404

\* ------------------------------------------------------------------------
\* Properties of the responses and of the store (checked under Spec)
\* ------------------------------------------------------------------------

\* The body of a response that was sent carries `status`: "success" with code 200,
\* "error" with any other code.
Envelope(r) ==
  r.code # 0 =>
     /\ "status" \in DOMAIN r.body
     /\ r.body.status = IF r.code = 200 THEN "success" ELSE "error"

\* C22: every response of the /generate-notes endpoint and of the /api/notes endpoints
\* carries a `status` field, "success" for a success and "error" for every 400, 404, 500
\* and 503.
C22_EveryResponseHasStatus ==
  /\ Envelope(resp)
  /\ \A c \in Callers : NotesCaller(c) => Envelope(callerResp[c])

\* C26: a /generate-notes request adds at most one note to the store, and only after its
\* generation call succeeded; a request answered 400 or 500 has made no save and leaves
\* the store as it is.
C26_SavesOnceAfterGeneration ==
  [][/\ Len(store') > Len(store) =>
          /\ pc = "saveNotes"
          /\ Len(store') = Len(store) + 1
          /\ Step("generate", TRUE) \in CallsMade
          /\ \A i \in DOMAIN calls : calls[i].call # "saveNotes"
     /\ (pc # "done" /\ pc' = "done" /\ resp'.code \in {400, 500}) =>
          /\ store' = store
          /\ savedNote' = 0
          /\ \A i \in DOMAIN calls' : calls'[i].call # "saveNotes"]_vars

\* C26 witness: a request for an uploaded audio file has saved its note, and the store
\* holds it.
C26_Witness ==
  /\ pc = "done"
  /\ content.kind = "file"
  /\ resp.code = 200
  /\ savedNote # 0
  /\ Cardinality(findById(savedNote)) = 1
  /\ Step("generate", TRUE) \in CallsMade

\* C27: a /generate-notes request sends exactly one response: never more than one while
\* it runs, exactly one once it has ended, and, when every external call eventually
\* returns or throws, every request that was received does end.
C27_ExactlyOneResponse ==
  /\ [](sent <= 1)
  /\ []((pc = "done") <=> (sent = 1))
  /\ []((sent = 1) <=> (resp # NoResponse))
  /\ [](pc \notin {"idle", "done"} => <>(pc = "done"))

\* C27 witness: the one response of a request whose save threw has been sent.
C27_Witness ==
  /\ pc = "done"
  /\ sent = 1
  /\ resp.code = 200
  /\ Step("saveNotes", FALSE) \in CallsMade

\* The request in progress (or just answered) is for an uploaded audio file.
AudioFileRequest == pc # "idle" /\ type = "audio" /\ content.kind = "file"

\* C28: for an uploaded audio file no language detection and no subject detection call
\* is made before generation; the validation targets "English", the detected_language of
\* the response is "English", and the subject is "General" up to the re-check, which
\* alone can change it.
C28_AudioFileSkipsDetection ==
  AudioFileRequest =>
     /\ pc \notin {"detectLanguage", "detectSubject", "retryLanguage"}
     /\ \A i \in DOMAIN calls : calls[i].call \notin {"detectLanguage", "detectSubject"}
     /\ pc \in {"generate", "validate"} => detectedSubject = "General"
     /\ pc = "validate" => targetLang = "English"
     /\ (pc = "done" /\ resp.code = 200) =>
           /\ resp.body.detected_language = "English"
           /\ resp.body.detected_subject = overrideSubject(generatedNotes, content, "General")

\* C28 witness: the response for an uploaded audio file reports "English" and a subject
\* the re-check took from the notes.
C28_Witness ==
  /\ AudioFileRequest
  /\ pc = "done"
  /\ resp.code = 200
  /\ resp.body.detected_language = "English"
  /\ resp.body.detected_subject # "General"


\* ------------------------------------------------------------------------
\* Claims on the upload route
\* ------------------------------------------------------------------------

\* The allow-list of upload types, as the specification gives it.
AllowList == {"wav", "mp3", "flac", "ogg", "aac", "aiff"}

\* The type of the upload is in the allow-list: the extension of the stored file, in
\* either case, is one of its entries.
InAllowList(f) == \E t \in AllowList : toLowerCase(extname(f.path)) = "." \o t

\* tSteps holds a completed conversion before any call of generateContent.
ConvertedFirst ==
  /\ tSteps # <<>>
  /\ tSteps[1] = Step("convertToPCMwav", TRUE)

C29_FilesDeletedOnEveryOutcome ==
  /\ tPc \in {"returned", "threw"} =>
       /\ tFile.path \notin disk
       /\ outputPath(tFile.path) \notin disk
  /\ tPc \in {"converting", "transcribing", "returned", "threw"} =>
       tResp = [code |-> 200, body |-> [message |-> "File received"]]

=============================================================================
